---- MODULE Spec2Model ----
(***************************************************************************)
(* Request orchestration of the DIY hub backend: the three route handlers  *)
(* (enhance-material, generate-project, explain-step), the in-memory cache *)
(* they share (utils/cache.js over node-cache) and the retrying callers of *)
(* the text-generation API (services/claudeService.js).                    *)
(*                                                                         *)
(* JavaScript runs each handler to its next `await` without interleaving,  *)
(* so one action is one such run: from the arrival of a request to its     *)
(* first upstream call, from the settling of an upstream call to the next  *)
(* suspension (a backoff timer) or to the response, and from the firing of *)
(* a backoff timer to the next upstream call.                              *)
(***************************************************************************)
EXTENDS Integers, Sequences, FiniteSets, TLC

(***************************************************************************)
(* Bounds of the model.                                                    *)
(***************************************************************************)
NumReqs == 2          \* requests in one behaviour, over all routes
NumRepeats == 3       \* requests in one behaviour of the one-key specification
MaxAdvances == 1      \* clock jumps in one behaviour
MaxRetriesArg == 3    \* largest maxRetries argument of a direct invoker call

(***************************************************************************)
(* Program constants.                                                      *)
(***************************************************************************)
stdTTL == 604800           \* seconds, cache.js: NodeCache stdTTL default
maxKeys == 1000            \* cache.js: NodeCache maxKeys
DefaultMaxRetries == 2     \* claudeService.js: maxRetries = 2
BackoffBaseMs == 1000      \* claudeService.js: Math.pow(2, attempt) * 1000
MinDescriptionLen == 10    \* promptBuilder.js: description.length < 10
MinStepTitleLen == 3       \* promptBuilder.js: stepTitle.length < 3
windowMs == 3600000        \* rateLimiter.js: windowMs default, one hour
max == 100                 \* rateLimiter.js: max default, requests per window

(***************************************************************************)
(* State.                                                                  *)
(***************************************************************************)
VARIABLES
  reqs,      \* the requests: what each was sent, where it stands, what it got
  cache,     \* the cache state shared by the routes
  now,       \* the clock, in seconds
  advances,  \* clock jumps so far
  limiter    \* the hit counter the rate limiter keeps for each client

vars == <<reqs, cache, now, advances, limiter>>

(***************************************************************************)
(* JavaScript values.  A string is a sequence of one-character strings, an *)
(* object a function from its own property names to values.                *)
(***************************************************************************)
Undef == [t |-> "undefined"]
Null == [t |-> "null"]
S(chars) == [t |-> "string", s |-> chars]
N(n) == [t |-> "number", n |-> n]
A(elems) == [t |-> "array", a |-> elems]
O(props) == [t |-> "object", o |-> props]
B(b) == [t |-> "boolean", b |-> b]

IsString(v) == v.t = "string"
IsNumber(v) == v.t = "number"
IsArray(v) == v.t = "array"
\* typeof v === 'object' (true of null too)
TypeofObject(v) == v.t \in {"object", "array", "null"}

\* ToBoolean
Truthy(v) ==
  CASE v.t = "undefined" -> FALSE
    [] v.t = "null" -> FALSE
    [] v.t = "string" -> Len(v.s) > 0
    [] v.t = "number" -> v.n # 0
    [] v.t = "boolean" -> v.b
    [] OTHER -> TRUE

\* `a || b`
Or(a, b) == IF Truthy(a) THEN a ELSE b

\* `field in obj` for an object or an array (an array of the model has no
\* named properties)
HasProp(v, field) == v.t = "object" /\ field \in DOMAIN v.o

\* `v.field` for a value that is neither null nor undefined
Prop(v, field) == IF HasProp(v, field) THEN v.o[field] ELSE Undef

\* `v.field` throws a TypeError for null and undefined
PropThrows(v) == v.t \in {"undefined", "null"}

(***************************************************************************)
(* Strings.                                                                *)
(***************************************************************************)
UpperCase ==
  <<"A", "B", "C", "D", "E", "F", "G", "H", "I", "J", "K", "L", "M", "N",
    "O", "P", "Q", "R", "S", "T", "U", "V", "W", "X", "Y", "Z">>
LowerCase ==
  <<"a", "b", "c", "d", "e", "f", "g", "h", "i", "j", "k", "l", "m", "n",
    "o", "p", "q", "r", "s", "t", "u", "v", "w", "x", "y", "z">>

LowerChar(c) ==
  IF \E i \in 1..Len(UpperCase) : UpperCase[i] = c
  THEN LowerCase[CHOOSE i \in 1..Len(UpperCase) : UpperCase[i] = c]
  ELSE c

\* String.prototype.toLowerCase
toLowerCase(chars) == [i \in 1..Len(chars) |-> LowerChar(chars[i])]

IsSpace(c) == c = " "

RECURSIVE TrimStart(_)
TrimStart(chars) ==
  IF chars # <<>> /\ IsSpace(Head(chars)) THEN TrimStart(Tail(chars)) ELSE chars

RECURSIVE TrimEnd(_)
TrimEnd(chars) ==
  IF chars # <<>> /\ IsSpace(chars[Len(chars)])
  THEN TrimEnd(SubSeq(chars, 1, Len(chars) - 1))
  ELSE chars

\* String.prototype.trim
trim(chars) == TrimEnd(TrimStart(chars))

\* String(v) inside a template literal
ToStr(v) ==
  CASE v.t = "string" -> v.s
    [] v.t = "undefined" -> <<"u", "n", "d", "e", "f", "i", "n", "e", "d">>
    [] v.t = "null" -> <<"n", "u", "l", "l">>
    [] v.t = "boolean" -> IF v.b THEN <<"t", "r", "u", "e">>
                          ELSE <<"f", "a", "l", "s", "e">>

\* crypto.createHash('sha256').update(text).digest('hex'): the digest is
\* taken to be collision-free, so it is the text under a tag that no
\* composite text carries.
Sha256Hex(chars) == [sha256 |-> chars]

(***************************************************************************)
(* Inbound payload checks (utils/promptBuilder.js).                        *)
(***************************************************************************)
Valid == [valid |-> TRUE, error |-> "none"]
Invalid(msg) == [valid |-> FALSE, error |-> msg]

\* validateMaterialData without its check of the name
validateMaterialData_NoNameCheck(materialData) ==
  IF ~Truthy(materialData) THEN Invalid("Material data is required")
  ELSE IF ~Truthy(Prop(materialData, "quantity"))
          \/ ~IsNumber(Prop(materialData, "quantity"))
  THEN Invalid("Material quantity is required and must be a number")
  ELSE Valid

validateMaterialData(materialData) ==
  IF ~Truthy(materialData) THEN Invalid("Material data is required")
  ELSE IF ~Truthy(Prop(materialData, "name")) \/ ~IsString(Prop(materialData, "name"))
  THEN Invalid("Material name is required and must be a string")
  ELSE IF ~Truthy(Prop(materialData, "quantity"))
          \/ ~IsNumber(Prop(materialData, "quantity"))
  THEN Invalid("Material quantity is required and must be a number")
  ELSE Valid

validateProjectData(projectData) ==
  IF ~Truthy(projectData) THEN Invalid("Project data is required")
  ELSE IF ~Truthy(Prop(projectData, "description"))
          \/ ~IsString(Prop(projectData, "description"))
  THEN Invalid("Project description is required and must be a string")
  ELSE IF Len(Prop(projectData, "description").s) < MinDescriptionLen
  THEN Invalid("Project description must be at least 10 characters")
  ELSE Valid

validateStepData(stepData) ==
  IF ~Truthy(stepData) THEN Invalid("Step data is required")
  ELSE IF ~Truthy(Prop(stepData, "stepTitle")) \/ ~IsString(Prop(stepData, "stepTitle"))
  THEN Invalid("Step title is required and must be a string")
  ELSE IF Len(Prop(stepData, "stepTitle").s) < MinStepTitleLen
  THEN Invalid("Step title must be at least 3 characters")
  ELSE Valid

(***************************************************************************)
(* Cache keys.  A key is a prefix and a digest; deriving one throws a      *)
(* TypeError when `.toLowerCase` is applied to a value that is no string.  *)
(***************************************************************************)
NoKey == [prefix |-> "none", digest |-> Sha256Hex(<<>>)]
Key(prefix, chars) == [threw |-> FALSE, key |-> [prefix |-> prefix, digest |-> Sha256Hex(chars)]]
KeyThrows == [threw |-> TRUE, key |-> NoKey]

\* utils/cache.js generateCacheKey
\* normalizedName, normalizedCategory, normalizedSpec of generateCacheKey
NormalizedFields(materialData) ==
  <<trim(toLowerCase(Or(Prop(materialData, "name"), S(<<>>)).s)),
    trim(toLowerCase(Or(Prop(materialData, "category"), S(<<>>)).s)),
    trim(toLowerCase(Or(Prop(materialData, "specification"),
                        S(<<"n", "o", "-", "s", "p", "e", "c">>)).s))>>

generateCacheKey(materialData) ==
  LET name == Or(Prop(materialData, "name"), S(<<>>))
      category == Or(Prop(materialData, "category"), S(<<>>))
      specification == Or(Prop(materialData, "specification"),
                          S(<<"n", "o", "-", "s", "p", "e", "c">>))
  IN IF ~IsString(name) \/ ~IsString(category) \/ ~IsString(specification)
     THEN KeyThrows
     ELSE Key("", trim(toLowerCase(name.s)) \o <<"_">>
                  \o trim(toLowerCase(category.s)) \o <<"_">>
                  \o trim(toLowerCase(specification.s)) \o <<"_">> \o <<"v", "1">>)

\* routes/generate.js: the key of a validated project payload
projectCacheKey(projectData) ==
  Key("project_", trim(toLowerCase(Prop(projectData, "description").s)))

\* routes/explainStep.js: the key of a validated step payload
stepCacheKey(stepData) ==
  Key("step_", trim(toLowerCase(
        ToStr(Prop(stepData, "stepTitle")) \o <<"_">>
        \o ToStr(Or(Prop(stepData, "projectTitle"), S(<<>>))))))

(***************************************************************************)
(* Prompts (utils/promptBuilder.js).  A user message is a fixed template   *)
(* with values interpolated; it is kept as the sequence of the texts       *)
(* interpolated, in the order of the template.  The system message of each *)
(* request kind is a constant text.                                        *)
(***************************************************************************)
\* `v?.field`
OptProp(v, field) == IF PropThrows(v) THEN Undef ELSE Prop(v, field)

\* `${v}` inside a template literal; the decimal numeral of a number stands
\* for itself (distinct numbers have distinct numerals)
Interpolate(v) == IF IsNumber(v) THEN <<v.n>> ELSE ToStr(v)

buildUserMessage(materialData) ==
  LET projectContext == Prop(materialData, "projectContext")
      projectTitle == Or(OptProp(projectContext, "projectTitle"),
                         S(<<"Unknown Project">>))
      projectCategory == Or(OptProp(projectContext, "projectCategory"), S(<<"General">>))
  IN <<Interpolate(Prop(materialData, "name")),
       Interpolate(Or(Prop(materialData, "category"), S(<<"Other">>))),
       Interpolate(Prop(materialData, "quantity")),
       Interpolate(Or(Prop(materialData, "unit"), S(<<"count">>))),
       Interpolate(Or(Prop(materialData, "specification"), S(<<"none">>))),
       Interpolate(projectTitle),
       Interpolate(projectCategory)>>

buildProjectGenerationUserMessage(projectData) ==
  LET context == Prop(projectData, "context")
      homeType == Or(OptProp(context, "homeType"), S(<<"Unknown">>))
      experienceLevel == Or(OptProp(context, "experienceLevel"), S(<<"Beginner">>))
      budget == Or(OptProp(context, "budget"), S(<<"Moderate">>))
  IN <<Interpolate(Prop(projectData, "description")),
       Interpolate(homeType),
       Interpolate(experienceLevel),
       Interpolate(budget),
       toLowerCase(experienceLevel.s)>>

buildStepExplanationPrompt(stepData) ==
  <<Interpolate(Prop(stepData, "stepTitle")),
    Interpolate(Prop(stepData, "projectTitle")),
    Interpolate(Or(Prop(stepData, "projectCategory"), S(<<"General DIY">>)))>>

\* the user message the upstream is sent for a validated payload
Prompt(route, payload) ==
  CASE route = "enhance-material" -> buildUserMessage(payload)
    [] route = "generate-project" -> buildProjectGenerationUserMessage(payload)
    [] route = "explain-step" -> buildStepExplanationPrompt(payload)

(***************************************************************************)
(* The cache (utils/cache.js over node-cache).  A cache state is the       *)
(* stored entries, each a value and the time t it expires at, the hit and  *)
(* miss counters, and `others`: the number of entries stored under keys    *)
(* that no payload of the model derives.  node-cache counts every stored   *)
(* entry, expired or not, in stats.keys.                                   *)
(***************************************************************************)
NoEntries == [k \in {} |-> Undef]

StatsKeys(c) == Cardinality(DOMAIN c.data) + c.others

\* node-cache _check: an entry is expired once its t lies before the clock
Expired(entry, clock) == entry.t # 0 /\ entry.t < clock

Without(data, key) == [k \in DOMAIN data \ {key} |-> data[k]]

\* node-cache get that does not look at the expiry time
NodeCacheGet_NoExpiry(c, key, clock) ==
  IF key \in DOMAIN c.data
  THEN [value |-> c.data[key].v, cache |-> [c EXCEPT !.hits = @ + 1]]
  ELSE [value |-> Undef, cache |-> [c EXCEPT !.misses = @ + 1]]

\* a get that renews the expiry time of the entry it hits
NodeCacheGet_Touch(c, key, clock) ==
  IF key \in DOMAIN c.data /\ ~Expired(c.data[key], clock)
  THEN [value |-> c.data[key].v,
        cache |-> [c EXCEPT !.hits = @ + 1, !.data[key].t = clock + stdTTL]]
  ELSE [value |-> Undef,
        cache |-> [c EXCEPT !.misses = @ + 1, !.data = Without(@, key)]]

\* node-cache get: a live entry is a hit; an expired one is deleted, and it
\* and an absent one are misses.
NodeCacheGet(c, key, clock) ==
  IF key \in DOMAIN c.data /\ ~Expired(c.data[key], clock)
  THEN [value |-> c.data[key].v, cache |-> [c EXCEPT !.hits = @ + 1]]
  ELSE [value |-> Undef,
        cache |-> [c EXCEPT !.misses = @ + 1, !.data = Without(@, key)]]

\* an expiry time that has passed when the entry is stored
ExpiresAt_Past(ttl, clock) == clock - 1

\* node-cache _getValLength: the time an entry set now with `ttl` expires
\* at: never (0) for ttl 0, clock + ttl for a ttl given, else by stdTTL
ExpiresAt(ttl, clock) ==
  IF ttl = N(0) THEN 0
  ELSE IF Truthy(ttl) THEN clock + ttl.n
  ELSE IF stdTTL = 0 THEN 0
  ELSE clock + stdTTL

\* node-cache set without its capacity check
NodeCacheSet_Unbounded(c, key, value, ttl, clock) ==
  [threw |-> FALSE, success |-> TRUE,
   cache |-> [c EXCEPT !.data =
                [k \in DOMAIN @ \cup {key} |->
                   IF k = key THEN [v |-> value, t |-> ExpiresAt(ttl, clock)] ELSE @[k]]]]

\* node-cache set: throws ECACHEFULL when stats.keys has reached maxKeys
\* (also for a key already stored), else stores the value with its expiry
\* time and returns true.  `ttl` is a number or undefined.
NodeCacheSet(c, key, value, ttl, clock) ==
  IF StatsKeys(c) >= maxKeys
  THEN [threw |-> TRUE, success |-> FALSE, cache |-> c]
  ELSE [threw |-> FALSE, success |-> TRUE,
        cache |-> [c EXCEPT !.data =
                     [k \in DOMAIN @ \cup {key} |->
                        IF k = key THEN [v |-> value, t |-> ExpiresAt(ttl, clock)]
                        ELSE @[k]]]]

\* node-cache _checkData, run every checkperiod: expired entries are deleted
NodeCacheSweep(c, clock) ==
  [c EXCEPT !.data = [k \in {j \in DOMAIN @ : ~Expired(@[j], clock)} |-> @[k]]]

\* utils/cache.js clearCache: node-cache flushAll empties the store and sets
\* its statistics back to zero
clearCache(c) == [c EXCEPT !.data = NoEntries, !.hits = 0, !.misses = 0, !.others = 0]

\* utils/cache.js getCacheStats: the number of stored keys and the counters
getCacheStats(c) == O([keys |-> N(StatsKeys(c)), hits |-> N(c.hits), misses |-> N(c.misses)])

\* getCached that joins a request in flight for the key: it hands out that
\* request's result instead of reporting a miss
getCached_Coalesced(c, key, clock) ==
  LET got == NodeCacheGet(c, key, clock)
  IN IF \E a \in DOMAIN reqs : reqs[a].pc \in {"invoking", "waiting"} /\ reqs[a].key = key
     THEN [value |-> O([joined |-> B(TRUE)]), cache |-> c]
     ELSE [value |-> IF Truthy(got.value) THEN got.value ELSE Null, cache |-> got.cache]

\* getCached with its test inverted: a stored value is reported as a miss
getCached_Inverted(c, key, clock) ==
  LET got == NodeCacheGet(c, key, clock)
  IN [value |-> IF ~Truthy(got.value) THEN got.value ELSE Null, cache |-> got.cache]

\* getCached answering a miss with an empty object instead of null
getCached_Placeholder(c, key, clock) ==
  LET got == NodeCacheGet(c, key, clock)
  IN [value |-> IF Truthy(got.value) THEN got.value ELSE O([k \in {} |-> Undef]),
      cache |-> got.cache]

\* utils/cache.js getCached: a falsy stored value reads as absent
getCached(c, key, clock) ==
  LET got == NodeCacheGet(c, key, clock)
  IN [value |-> IF Truthy(got.value) THEN got.value ELSE Null, cache |-> got.cache]

\* setCached that reports success and stores nothing
setCached_Dropped(c, key, value, ttl, clock) ==
  [threw |-> FALSE, success |-> TRUE, cache |-> c]

\* utils/cache.js setCached (ttl undefined: the default TTL): returns what cache.set
\* returns and lets what it throws pass
setCached(c, key, value, ttl, clock) == NodeCacheSet(c, key, value, ttl, clock)

(***************************************************************************)
(* Response validators (services/claudeService.js).  A verdict is valid,   *)
(* invalid with the parts of its reason, or a TypeError thrown on reading  *)
(* a property of null or undefined.                                        *)
(***************************************************************************)
VOk == [valid |-> TRUE, threw |-> FALSE, error |-> <<>>]
VFail(parts) == [valid |-> FALSE, threw |-> FALSE, error |-> parts]
VThrow == [valid |-> FALSE, threw |-> TRUE, error |-> <<"TypeError">>]

Min(set) == CHOOSE x \in set : \A y \in set : x <= y

\* the first of `fields` that is not `in` obj, 0 when none is missing
FirstMissing(obj, fields) ==
  LET missing == {i \in 1..Len(fields) : ~HasProp(obj, fields[i])}
  IN IF missing = {} THEN 0 ELSE Min(missing)

RecommendationFields ==
  <<"primaryBrand", "primaryModel", "specification", "reasoning", "alternatives",
    "buyingTips", "quantitySuggestion">>

AltIncomplete(alt) ==
  ~Truthy(Prop(alt, "brand")) \/ ~Truthy(Prop(alt, "model")) \/ ~Truthy(Prop(alt, "note"))

validateRecommendation(recommendation) ==
  IF ~Truthy(recommendation) \/ ~TypeofObject(recommendation)
  THEN VFail(<<"Recommendation must be an object">>)
  ELSE IF FirstMissing(recommendation, RecommendationFields) # 0
  THEN VFail(<<"Missing required field: ",
               RecommendationFields[FirstMissing(recommendation, RecommendationFields)]>>)
  ELSE IF ~IsArray(Prop(recommendation, "alternatives"))
  THEN VFail(<<"alternatives must be an array">>)
  ELSE LET alts == Prop(recommendation, "alternatives").a
           bad == {i \in 1..Len(alts) : PropThrows(alts[i]) \/ AltIncomplete(alts[i])}
       IN IF bad = {} THEN VOk
          ELSE IF PropThrows(alts[Min(bad)]) THEN VThrow
          ELSE VFail(<<"Each alternative must have brand, model, and note">>)

ProjectPlanFields ==
  <<"title", "description", "category", "difficulty", "estimatedTime", "steps",
    "materials", "tools", "safetyTips", "estimatedCost", "commonMistakes">>

StepIncomplete(step) ==
  ~Truthy(Or(Prop(step, "stepNumber"), Prop(step, "order")))
  \/ ~Truthy(Prop(step, "title"))
  \/ ~Truthy(Or(Prop(step, "instruction"), Prop(step, "instructions")))

validateProjectPlan(projectPlan) ==
  IF ~Truthy(projectPlan) \/ ~TypeofObject(projectPlan)
  THEN VFail(<<"Project plan must be an object">>)
  ELSE IF FirstMissing(projectPlan, ProjectPlanFields) # 0
  THEN VFail(<<"Missing required field: ",
               ProjectPlanFields[FirstMissing(projectPlan, ProjectPlanFields)]>>)
  ELSE IF ~IsArray(Prop(projectPlan, "steps")) \/ Len(Prop(projectPlan, "steps").a) = 0
  THEN VFail(<<"steps must be a non-empty array">>)
  ELSE LET steps == Prop(projectPlan, "steps").a
           bad == {i \in 1..Len(steps) : PropThrows(steps[i]) \/ StepIncomplete(steps[i])}
       IN IF bad # {}
          THEN IF PropThrows(steps[Min(bad)]) THEN VThrow
               ELSE VFail(<<"Each step must have stepNumber/order, title, and instruction/instructions">>)
          ELSE IF ~IsArray(Prop(projectPlan, "materials"))
          THEN VFail(<<"materials must be an array">>)
          ELSE IF ~IsArray(Prop(projectPlan, "tools"))
          THEN VFail(<<"tools must be an array">>)
          ELSE IF ~IsArray(Prop(projectPlan, "safetyTips"))
          THEN VFail(<<"safetyTips must be an array">>)
          ELSE IF ~IsArray(Prop(projectPlan, "commonMistakes"))
          THEN VFail(<<"commonMistakes must be an array">>)
          ELSE VOk

(***************************************************************************)
(* Tool normalization of a decoded project plan (generateProjectPlan).     *)
(***************************************************************************)
\* reading or filtering tool.alternatives throws for a tool that is null,
\* undefined or a primitive, and for an alternative that is null or undefined
ToolThrows(tool) ==
  \/ tool.t \notin {"object", "array"}
  \/ /\ IsArray(Prop(tool, "alternatives"))
     /\ \E i \in 1..Len(Prop(tool, "alternatives").a) :
          PropThrows(Prop(tool, "alternatives").a[i])

AltWellFormed(alt) == Truthy(Prop(alt, "name")) /\ Truthy(Prop(alt, "specification"))

\* `tool.required ?? true`
RequiredOrTrue(tool) ==
  IF Prop(tool, "required").t \in {"undefined", "null"} THEN B(TRUE)
  ELSE Prop(tool, "required")

\* the pass keeping every alternative of an array
NormalizeTool_Unfiltered(tool) ==
  LET alts == IF IsArray(Prop(tool, "alternatives")) THEN Prop(tool, "alternatives").a
              ELSE <<>>
  IN O([name |-> Or(Prop(tool, "name"), S(<<"U", "n", "k", "n", "o", "w", "n">>)),
        specification |-> Or(Prop(tool, "specification"), S(<<>>)),
        required |-> RequiredOrTrue(tool),
        alternatives |-> A(alts),
        usage |-> Or(Prop(tool, "usage"), S(<<>>))])

NormalizeTool(tool) ==
  LET alts == IF IsArray(Prop(tool, "alternatives")) THEN Prop(tool, "alternatives").a
              ELSE <<>>
  IN O([name |-> Or(Prop(tool, "name"), S(<<"U", "n", "k", "n", "o", "w", "n">>)),
        specification |-> Or(Prop(tool, "specification"), S(<<>>)),
        required |-> RequiredOrTrue(tool),
        alternatives |-> A(SelectSeq(alts, AltWellFormed)),
        usage |-> Or(Prop(tool, "usage"), S(<<>>))])

\* the plan after the pass, or a thrown TypeError
NormalizeTools(projectPlan) ==
  IF PropThrows(projectPlan) THEN [threw |-> TRUE, plan |-> projectPlan]
  ELSE IF ~(Truthy(Prop(projectPlan, "tools")) /\ IsArray(Prop(projectPlan, "tools")))
  THEN [threw |-> FALSE, plan |-> projectPlan]
  ELSE LET tools == Prop(projectPlan, "tools").a
       IN IF \E i \in 1..Len(tools) : ToolThrows(tools[i])
          THEN [threw |-> TRUE, plan |-> projectPlan]
          ELSE [threw |-> FALSE,
                plan |-> O([projectPlan.o EXCEPT
                              !["tools"] = A([i \in 1..Len(tools) |-> NormalizeTool(tools[i])])])]

(***************************************************************************)
(* The upstream API.  anthropic.messages.create either rejects with an API *)
(* error carrying an HTTP status, or resolves with a message: a sequence   *)
(* of content blocks.  The text of a text block is an optional code fence  *)
(* around a document, which is well-formed JSON for a value or is not.     *)
(***************************************************************************)
Rejected(status) == [settled |-> "rejected", status |-> status, content |-> <<>>]
Resolved(content) == [settled |-> "resolved", status |-> 0, content |-> content]

TextBlock(fence, wellFormed, value) ==
  [type |-> "text", fence |-> fence, wellFormed |-> wellFormed, value |-> value]
ToolUseBlock == [type |-> "tool_use", fence |-> "none", wellFormed |-> FALSE, value |-> Undef]

(***************************************************************************)
(* Errors: message parts, the `status` property (0: the error has none)    *)
(* and the attempt that created the object.                                *)
(***************************************************************************)
Error(parts, status, attempt) == [message |-> parts, status |-> status, at |-> attempt]
NoError == Error(<<>>, 0, -1)

Returned(value) == [ok |-> TRUE, value |-> value, error |-> NoError]
Thrown(error) == [ok |-> FALSE, value |-> Undef, error |-> error]

\* the error the SDK rejects with for an HTTP status
APIError(status, attempt) == Error(<<"APIError">>, status, attempt)

\* response.content.find(block => block.type === 'text'), then the fence is
\* stripped in either of its two forms and the rest is given to JSON.parse
DecodeReply(reply, attempt) ==
  IF reply.settled = "rejected" THEN Thrown(APIError(reply.status, attempt))
  ELSE LET texts == SelectSeq(reply.content, LAMBDA b : b.type = "text")
       IN IF texts = <<>>
          THEN Thrown(Error(<<"No text content in Claude response">>, 0, attempt))
          ELSE IF Head(texts).fence \in {"none", "json", "untyped"} /\ Head(texts).wellFormed
          THEN Returned(Head(texts).value)
          ELSE Thrown(Error(<<"Invalid JSON response from Claude API">>, 0, attempt))

\* the catch block shared by the three callers: 401, 429 and 5xx become new
\* errors without a status, anything else is rethrown as it is
EnhanceError(result, attempt) ==
  IF result.ok THEN result
  ELSE IF result.error.status = 401
  THEN Thrown(Error(<<"Invalid Anthropic API key">>, 0, attempt))
  ELSE IF result.error.status = 429
  THEN Thrown(Error(<<"Rate limit exceeded on Claude API">>, 0, attempt))
  ELSE IF result.error.status >= 500
  THEN Thrown(Error(<<"Claude API server error">>, 0, attempt))
  ELSE result

\* one attempt of the material caller
getProductRecommendation(reply, attempt) ==
  LET decoded == DecodeReply(reply, attempt)
      validation == validateRecommendation(decoded.value)
  IN EnhanceError(
       IF ~decoded.ok THEN decoded
       ELSE IF validation.threw THEN Thrown(Error(<<"TypeError">>, 0, attempt))
       ELSE IF ~validation.valid
       THEN Thrown(Error(<<"Invalid recommendation structure: ">> \o validation.error,
                         0, attempt))
       ELSE Returned(decoded.value),
       attempt)

\* one attempt of the project caller
generateProjectPlan(reply, attempt) ==
  LET decoded == DecodeReply(reply, attempt)
      normalized == NormalizeTools(decoded.value)
      validation == validateProjectPlan(normalized.plan)
  IN EnhanceError(
       IF ~decoded.ok THEN decoded
       ELSE IF normalized.threw \/ validation.threw
       THEN Thrown(Error(<<"TypeError">>, 0, attempt))
       ELSE IF ~validation.valid
       THEN Thrown(Error(<<"Invalid project plan structure: ">> \o validation.error,
                         0, attempt))
       ELSE Returned(normalized.plan),
       attempt)

\* one attempt of the step caller: the decoded value is returned unchecked
explainStep(reply, attempt) == EnhanceError(DecodeReply(reply, attempt), attempt)

(***************************************************************************)
(* The retry loops.  After a failed attempt a loop rethrows at once, waits *)
(* and goes round again, or falls out of the loop and throws lastError.    *)
(***************************************************************************)
RECURSIVE Pow2(_)
Pow2(n) == IF n = 0 THEN 1 ELSE 2 * Pow2(n - 1)

\* a linear schedule instead of the exponential one
BackoffDelay_Linear(attempt) == (attempt + 1) * BackoffBaseMs

\* Math.pow(2, attempt) * 1000
BackoffDelay(attempt) == Pow2(attempt) * BackoffBaseMs

\* the loop going round once more than maxRetries allows
WithRetry_ExtraRound(error, attempt, maxRetries) ==
  IF error.status >= 400 /\ error.status < 500 /\ error.status # 429 THEN "rethrow"
  ELSE IF attempt <= maxRetries THEN "wait"
  ELSE "exhausted"

\* the loop giving up one attempt early
WithRetry_OffByOne(error, attempt, maxRetries) ==
  IF error.status >= 400 /\ error.status < 500 /\ error.status # 429 THEN "rethrow"
  ELSE IF attempt + 1 < maxRetries THEN "wait"
  ELSE "exhausted"

\* the loop without its test for client errors
WithRetry_RetryAll(error, attempt, maxRetries) ==
  IF attempt < maxRetries THEN "wait" ELSE "exhausted"

getProductRecommendationWithRetry(error, attempt, maxRetries) ==
  IF error.status >= 400 /\ error.status < 500 /\ error.status # 429 THEN "rethrow"
  ELSE IF attempt < maxRetries THEN "wait"
  ELSE "exhausted"

generateProjectPlanWithRetry(error, attempt, maxRetries) ==
  IF error.status >= 400 /\ error.status < 500 /\ error.status # 429 THEN "rethrow"
  ELSE IF attempt < maxRetries THEN "wait"
  ELSE "exhausted"

explainStepWithRetry(error, attempt, maxRetries) ==
  IF error.status >= 400 /\ error.status < 500 /\ error.status # 429 THEN "rethrow"
  ELSE IF attempt < maxRetries THEN "wait"
  ELSE "exhausted"

\* the loop wrapping what it gives up with in a new error
WithRetryThrows_Wrapped(then, error, lastError) ==
  Error(<<"Max retries exceeded: ">> \o lastError.message, 0, lastError.at)

\* what a loop throws: the caught error at once (`throw error`), or, the loop
\* over, the variable the catch assigned last (`throw lastError`)
WithRetryThrows(then, error, lastError) == IF then = "rethrow" THEN error ELSE lastError

(***************************************************************************)
(* Responses.  `cached` and `data` are undefined in a failure envelope.    *)
(***************************************************************************)
Response(status, success, cached, data, error, message) ==
  [status |-> status, success |-> success, cached |-> cached, data |-> data,
   error |-> error, message |-> message]
NoResponse == Response(0, FALSE, Undef, Undef, "none", <<>>)

Success(data, cached) == Response(200, TRUE, B(cached), data, "none", <<>>)
Failure(status, error, message) == Response(status, FALSE, Undef, Undef, error, message)

\* String.prototype.includes on a message, for the patterns errorHandler
\* looks for and the message texts of the model
Contains ==
  {<<"Invalid Anthropic API key", "API key">>,
   <<"Rate limit exceeded on Claude API", "Rate limit">>,
   <<"Invalid JSON response from Claude API", "Invalid JSON">>}
Includes(parts, pattern) == \E i \in 1..Len(parts) : <<parts[i], pattern>> \in Contains

\* middleware/errorHandler.js
errorHandler(err) ==
  IF err.message # <<>> /\ Includes(err.message, "API key")
  THEN Failure(500, "Configuration error",
               <<"Server configuration issue. Please contact support.">>)
  ELSE IF err.message # <<>> /\ Includes(err.message, "Rate limit")
  THEN Failure(429, "Rate limit exceeded", <<"Too many requests. Please try again later.">>)
  ELSE IF err.message # <<>> /\ Includes(err.message, "Invalid JSON")
  THEN Failure(500, "Invalid response",
               <<"Received invalid response from AI service. Please try again.">>)
  ELSE IF err.message # <<>> /\ Includes(err.message, "validation")
  THEN Failure(400, "Validation error", err.message)
  ELSE Failure(500, "Internal server error",
               <<"An unexpected error occurred. Please try again.">>)

Routes == {"enhance-material", "generate-project", "explain-step"}

\* a catch block that swallows the error and answers with an empty success
RouteCatch_Swallow(route, error) == Success(Null, FALSE)

\* the catch block of a route: enhance and generate pass the error to
\* errorHandler, explain-step answers 500 with the error's own message
RouteCatch(route, error) ==
  IF route = "explain-step"
  THEN Failure(500, "Server error",
               IF error.message # <<>> THEN error.message
               ELSE <<"Failed to generate explanation">>)
  ELSE errorHandler(error)

\* the 400 answer of a route to a payload that fails its check
RouteInvalid(route, validation) ==
  Failure(400, IF route = "enhance-material" THEN "Validation error" ELSE "Validation failed",
          <<validation.error>>)

ValidatePayload(route, payload) ==
  CASE route = "enhance-material" -> validateMaterialData(payload)
    [] route = "generate-project" -> validateProjectData(payload)
    [] route = "explain-step" -> validateStepData(payload)

DeriveKey(route, payload) ==
  CASE route = "enhance-material" -> generateCacheKey(payload)
    [] route = "generate-project" -> projectCacheKey(payload)
    [] route = "explain-step" -> stepCacheKey(payload)

\* the `data` of a success envelope
RouteData(route, value) ==
  IF route = "enhance-material" THEN O([recommendation |-> value]) ELSE value

Attempt(route, reply, attempt) ==
  CASE route = "enhance-material" -> getProductRecommendation(reply, attempt)
    [] route = "generate-project" -> generateProjectPlan(reply, attempt)
    [] route = "explain-step" -> explainStep(reply, attempt)

AfterFailure(route, error, attempt, maxRetries) ==
  CASE route = "enhance-material" -> getProductRecommendationWithRetry(error, attempt, maxRetries)
    [] route = "generate-project" -> generateProjectPlanWithRetry(error, attempt, maxRetries)
    [] route = "explain-step" -> explainStepWithRetry(error, attempt, maxRetries)

\* routes/explainStep.js: the check of the explanation in the route
ExplanationFields ==
  <<"explanation", "keyPoints", "visualCues", "estimatedTime", "commonMistakes">>
MissingFields(explanation) ==
  SelectSeq(ExplanationFields, LAMBDA f : ~Truthy(Prop(explanation, f)))

\* a route that stores what its caller returned without looking at it
AfterReturn_Unchecked(route, key, value, c, clock) ==
  LET stored == setCached(c, key, value, Undef, clock)
  IN IF stored.threw
     THEN [response |-> RouteCatch(route, Error(<<"Cache max keys amount exceeded">>, 0, -1)),
           cache |-> c, set |-> "threw"]
     ELSE [response |-> Success(RouteData(route, value), FALSE),
           cache |-> stored.cache, set |-> "stored"]

\* what a route does with the value its retrying caller returned: the
\* response, and the cache after it
AfterReturn(route, key, value, c, clock) ==
  LET stored == setCached(c, key, value, Undef, clock)
  IN IF route = "explain-step" /\ (~Truthy(value) \/ ~TypeofObject(value))
     THEN [response |-> Failure(500, "Invalid response",
                                <<"AI returned invalid response format">>),
           cache |-> c, set |-> "none"]
     ELSE IF route = "explain-step" /\ MissingFields(value) # <<>>
     THEN [response |-> Failure(500, "Incomplete response",
                                <<"AI response missing fields: ">> \o MissingFields(value)),
           cache |-> c, set |-> "none"]
     ELSE IF stored.threw
     THEN [response |-> RouteCatch(route, Error(<<"Cache max keys amount exceeded">>, 0, -1)),
           cache |-> c, set |-> "threw"]
     ELSE [response |-> Success(RouteData(route, value), FALSE),
           cache |-> stored.cache, set |-> "stored"]

(***************************************************************************)
(* Inputs: the payloads clients send and the replies the upstream gives.   *)
(***************************************************************************)
Paint == <<"P", "a", "i", "n", "t">>
PaintSpaced == <<" ", "p", "a", "i", "n", "t", " ">>
FixTheDoor == <<"F", "i", "x", " ", "t", "h", "e", " ", "d", "o", "o", "r">>
Cut == <<"C", "u", "t">>

Payloads(route) ==
  CASE route = "enhance-material" ->
         {O([name |-> S(Paint), quantity |-> N(2)]),
          O([quantity |-> N(2)])}
    [] route = "generate-project" ->
         {O([description |-> S(FixTheDoor)]),
          O([description |-> S(<<"F", "i", "x">>)])}
    [] route = "explain-step" ->
         {O([stepTitle |-> S(Cut), projectTitle |-> S(FixTheDoor)]),
          O([stepTitle |-> S(<<"C", "u">>)])}

Alternative == O([brand |-> S(<<"b">>), model |-> S(<<"m">>), note |-> S(<<"n">>)])

\* a complete recommendation; `m` tells one upstream answer from another
Recommendation(m) ==
  O([primaryBrand |-> S(<<"b">>), primaryModel |-> S(<<m>>), specification |-> S(<<"s">>),
     reasoning |-> S(<<"r">>), alternatives |-> A(<<Alternative>>),
     buyingTips |-> A(<<>>), quantitySuggestion |-> S(<<"q">>)])

\* a complete plan in the old step format, its tool carrying the legacy
\* string alternatives
ProjectPlan(m) ==
  O([title |-> S(<<m>>), description |-> S(<<"d">>), category |-> S(<<"c">>),
     difficulty |-> S(<<"e">>), estimatedTime |-> S(<<"t">>),
     steps |-> A(<<O([order |-> N(1), title |-> S(<<"s">>), instructions |-> S(<<"i">>)])>>),
     materials |-> A(<<>>),
     tools |-> A(<<O([name |-> S(<<"s", "a", "w">>), alternatives |-> S(<<"n", "/", "a">>)])>>),
     safetyTips |-> A(<<>>), estimatedCost |-> S(<<"$">>), commonMistakes |-> A(<<>>)])

Explanation(m) ==
  O([explanation |-> S(<<m>>), keyPoints |-> A(<<>>), visualCues |-> A(<<>>),
     estimatedTime |-> S(<<"t">>), commonMistakes |-> A(<<>>)])

\* obj without one of its properties
Omit(obj, field) == O([f \in DOMAIN obj.o \ {field} |-> obj.o[f]])

Complete(route, m) ==
  CASE route = "enhance-material" -> Recommendation(m)
    [] route = "generate-project" -> ProjectPlan(m)
    [] route = "explain-step" -> Explanation(m)

Incomplete(route) ==
  CASE route = "enhance-material" -> Omit(Recommendation("1"), "reasoning")
    [] route = "generate-project" -> Omit(ProjectPlan("1"), "steps")
    [] route = "explain-step" -> Omit(Explanation("1"), "keyPoints")

Statuses == {400, 401, 404, 429, 503}

Replies(route) ==
  {Rejected(status) : status \in Statuses}
  \cup {Resolved(<<ToolUseBlock>>),
        Resolved(<<TextBlock("none", FALSE, Undef)>>),
        Resolved(<<TextBlock("none", TRUE, Complete(route, "1"))>>),
        Resolved(<<TextBlock("json", TRUE, Complete(route, "2"))>>),
        Resolved(<<ToolUseBlock, TextBlock("untyped", TRUE, Incomplete(route))>>)}

(***************************************************************************)
(* The fault classes of the design (AUTH, UPSTREAM_RATE_LIMIT, ...), read  *)
(* off what the upstream answered: the record a request keeps of why its   *)
(* latest failed attempt failed.                                           *)
(***************************************************************************)
ContractOk(route, value) ==
  CASE route = "enhance-material" -> validateRecommendation(value).valid
    [] route = "generate-project" ->
         /\ ~NormalizeTools(value).threw
         /\ validateProjectPlan(NormalizeTools(value).plan).valid
    [] route = "explain-step" -> TRUE

FaultClass(route, reply) ==
  IF reply.settled = "rejected"
  THEN CASE reply.status = 401 -> "AUTH"
         [] reply.status = 429 -> "UPSTREAM_RATE_LIMIT"
         [] reply.status >= 500 -> "UPSTREAM_SERVER"
         [] OTHER -> "CLIENT_REQUEST"
  ELSE LET texts == SelectSeq(reply.content, LAMBDA b : b.type = "text")
       IN IF texts = <<>> THEN "NO_TEXT"
          ELSE IF ~Head(texts).wellFormed THEN "DECODE"
          ELSE IF ~ContractOk(route, Head(texts).value) THEN "CONTRACT"
          ELSE "NONE"

(***************************************************************************)
(* The rate limiter mounted on /api before the routes.  It counts the hits *)
(* of each client (req.ip) in a window that starts with the client's first *)
(* hit and lasts windowMs; a hit after the window's end starts a new one.  *)
(* earlier is the part of count that was hit before the behaviour starts.  *)
(***************************************************************************)
Clients == {"10.0.0.1", "10.0.0.2"}
OneClient == "10.0.0.1"
WindowSeconds == windowMs \div 1000

Hits(count, resetAt, earlier) == [count |-> count, resetAt |-> resetAt, earlier |-> earlier]
NoHits == Hits(0, 0, 0)

\* one counter for all the clients
rateLimit_Shared(l, client, clock) ==
  LET entry == l[OneClient]
      fresh == clock >= entry.resetAt
      totalHits == IF fresh THEN 1 ELSE entry.count + 1
  IN [limited |-> totalHits > max,
      limiter |-> [l EXCEPT ![OneClient] =
                     IF fresh THEN Hits(1, clock + WindowSeconds, 0)
                     ELSE [entry EXCEPT !.count = totalHits]]]

\* the store's increment for the client, and the comparison with max
rateLimit(l, client, clock) ==
  LET entry == l[client]
      fresh == clock >= entry.resetAt
      totalHits == IF fresh THEN 1 ELSE entry.count + 1
  IN [limited |-> totalHits > max,
      limiter |-> [l EXCEPT ![client] =
                     IF fresh THEN Hits(1, clock + WindowSeconds, 0)
                     ELSE [entry EXCEPT !.count = totalHits]]]

\* the limiter's handler option
handler ==
  Failure(429, "Too many requests",
          <<"You have exceeded the rate limit. Please try again later.">>)

(***************************************************************************)
(* Requests.                                                               *)
(***************************************************************************)
ReqIds == 1..NumReqs
RepeatIds == 1..NumRepeats
AllIds == ReqIds \cup RepeatIds

Idle ==
  [pc |-> "idle", direct |-> FALSE, route |-> "none", payload |-> Undef, key |-> NoKey,
   args |-> <<>>, attempt |-> 0, maxRetries |-> 0, calls |-> 0, waits |-> <<>>,
   lastError |-> NoError, lastFault |-> "NONE", thrown |-> NoError, outcome |-> "none",
   result |-> Undef,
   response |-> NoResponse, answeredAt |-> 0, log |-> <<>>,
   client |-> "none", window |-> 0]

\* the cache either starts empty or already holds maxKeys - 1 entries that
\* earlier requests for other keys stored (one miss each)
Init ==
  /\ reqs = [r \in AllIds |-> Idle]
  /\ \E others \in {0, maxKeys - 1} :
       cache = [data |-> NoEntries, hits |-> 0, misses |-> others, others |-> others]
  /\ now = 0
  /\ advances = 0
  /\ limiter = [c \in Clients |-> NoHits]

Done(r) == reqs[r].pc = "done"
\* a server that takes no request while one is suspended
NextToArrive_Blocking(r) ==
  /\ reqs[r].pc = "idle"
  /\ \A q \in AllIds : q < r => reqs[q].pc # "idle"
  /\ \A q \in AllIds : reqs[q].pc \notin {"invoking", "waiting"}

NextToArrive(r) == reqs[r].pc = "idle" /\ \A q \in AllIds : q < r => reqs[q].pc # "idle"

\* the request answered: its response is sent
Answered(req, response, events) ==
  [req EXCEPT !.pc = "done", !.response = response, !.answeredAt = now,
              !.log = @ \o events \o <<"respond">>]

(***************************************************************************)
(* A request of a client arrives.  The rate limiter counts it and, beyond  *)
(* max, answers it; otherwise the route runs to its first await: payload   *)
(* check, key derivation, cache read, and on a miss the first upstream     *)
(* call of the retrying caller (maxRetries left at its default).  window   *)
(* records the end of the client's window the request was counted in.      *)
(***************************************************************************)
Receive(r, client, route, payload) ==
  /\ NextToArrive(r)
  /\ LET gate == rateLimit(limiter, client, now)
         validation == ValidatePayload(route, payload)
         derived == DeriveKey(route, payload)
         got == getCached(cache, derived.key, now)
         req == [reqs[r] EXCEPT !.route = route, !.payload = payload, !.client = client,
                                !.window = gate.limiter[client].resetAt]
     IN /\ limiter' = gate.limiter
        /\ IF gate.limited
           THEN /\ reqs' = [reqs EXCEPT ![r] = Answered(req, handler, <<"limited">>)]
                /\ cache' = cache
           ELSE IF ~validation.valid
           THEN /\ reqs' = [reqs EXCEPT ![r] =
                              Answered(req, RouteInvalid(route, validation), <<>>)]
                /\ cache' = cache
           ELSE IF derived.threw
           THEN /\ reqs' = [reqs EXCEPT ![r] =
                              Answered(req, RouteCatch(route, Error(<<"TypeError">>, 0, -1)),
                                       <<>>)]
                /\ cache' = cache
           ELSE IF Truthy(got.value)
           THEN /\ reqs' = [reqs EXCEPT ![r] =
                              Answered([req EXCEPT !.key = derived.key],
                                       Success(RouteData(route, got.value), TRUE),
                                       <<"get:hit">>)]
                /\ cache' = got.cache
           ELSE /\ reqs' = [reqs EXCEPT ![r] =
                              [req EXCEPT !.key = derived.key, !.pc = "invoking",
                                          !.maxRetries = DefaultMaxRetries, !.calls = 1,
                                          !.log = <<"get:miss", "invoke">>]]
                /\ cache' = got.cache
  /\ UNCHANGED <<now, advances>>

(***************************************************************************)
(* A retrying caller is called on its own, with maxRetries given or left   *)
(* out: one call in a behaviour, since a call shares no state with any     *)
(* other.                                                                  *)
(***************************************************************************)
Call(r, route, args) ==
  /\ \A q \in AllIds : reqs[q].pc = "idle"
  /\ reqs' = [reqs EXCEPT ![r] =
                [@ EXCEPT !.direct = TRUE, !.route = route, !.pc = "invoking", !.args = args,
                          !.maxRetries = IF args = <<>> THEN DefaultMaxRetries ELSE args[1],
                          !.calls = 1, !.log = <<"invoke">>]]
  /\ UNCHANGED <<cache, now, advances, limiter>>

(***************************************************************************)
(* An upstream call settles and the caller runs on: a decoded and valid    *)
(* value is returned (and the route caches it and answers), a failure is   *)
(* rethrown or, the loop being over, lastError is thrown (and the route    *)
(* answers with a failure), or the caller starts a backoff timer.          *)
(***************************************************************************)
Settle(r, reply) ==
  /\ LET req == reqs[r]
         result == Attempt(req.route, reply, req.attempt)
         then == AfterFailure(req.route, result.error, req.attempt, req.maxRetries)
         after == AfterReturn(req.route, req.key, result.value, cache, now)
     IN IF result.ok
        THEN LET returned == [req EXCEPT !.outcome = "returned", !.result = result.value,
                                         !.lastError = NoError, !.lastFault = "NONE"]
             IN IF req.direct
                THEN /\ reqs' = [reqs EXCEPT ![r] = [returned EXCEPT !.pc = "done"]]
                     /\ cache' = cache
                ELSE /\ reqs' = [reqs EXCEPT ![r] =
                                   Answered(returned, after.response,
                                            IF after.set = "stored" THEN <<"set">>
                                            ELSE IF after.set = "threw" THEN <<"set:threw">>
                                            ELSE <<>>)]
                     /\ cache' = after.cache
        ELSE IF then = "wait"
        THEN /\ reqs' = [reqs EXCEPT ![r] =
                           [req EXCEPT !.pc = "waiting", !.lastError = result.error,
                                       !.lastFault = FaultClass(req.route, reply),
                                       !.waits = Append(@, BackoffDelay(req.attempt)),
                                       !.log = Append(@, "wait")]]
             /\ cache' = cache
        ELSE LET error == WithRetryThrows(then, result.error, result.error)
                 thrown == [req EXCEPT !.outcome = "thrown", !.lastError = result.error,
                                       !.lastFault = FaultClass(req.route, reply),
                                       !.thrown = error]
             IN /\ reqs' = [reqs EXCEPT ![r] =
                              IF req.direct THEN [thrown EXCEPT !.pc = "done"]
                              ELSE Answered(thrown, RouteCatch(req.route, error), <<>>)]
                /\ cache' = cache
  /\ UNCHANGED <<now, advances, limiter>>

UpstreamSettles(r) ==
  /\ reqs[r].pc = "invoking"
  /\ \E reply \in Replies(reqs[r].route) : Settle(r, reply)

(***************************************************************************)
(* A backoff timer fires: the loop goes round and calls upstream again.    *)
(***************************************************************************)
BackoffElapsed(r) ==
  /\ reqs[r].pc = "waiting"
  /\ reqs' = [reqs EXCEPT ![r] =
                [@ EXCEPT !.pc = "invoking", !.attempt = @ + 1, !.calls = @ + 1,
                          !.log = Append(@, "invoke")]]
  /\ UNCHANGED <<cache, now, advances, limiter>>

(***************************************************************************)
(* Time passes: by exactly the TTL, or by one second more.                 *)
(***************************************************************************)
Advance(seconds) ==
  /\ advances < MaxAdvances
  /\ now' = now + seconds
  /\ advances' = advances + 1
  /\ UNCHANGED <<reqs, cache, limiter>>

Next ==
  \/ \E r \in ReqIds, route \in Routes : \E payload \in Payloads(route) :
       Receive(r, OneClient, route, payload)
  \/ \E r \in ReqIds : UpstreamSettles(r)
  \/ \E r \in ReqIds : BackoffElapsed(r)
  \/ \E seconds \in {stdTTL, stdTTL + 1} : Advance(seconds)

Spec == Init /\ [][Next]_vars

(***************************************************************************)
(* The retrying callers on their own, called with every maxRetries up to   *)
(* MaxRetriesArg.                                                          *)
(***************************************************************************)
NextInvoker ==
  \/ \E r \in ReqIds, route \in Routes :
       \E args \in {<<>>} \cup {<<n>> : n \in 0..MaxRetriesArg} : Call(r, route, args)
  \/ \E r \in ReqIds : UpstreamSettles(r)
  \/ \E r \in ReqIds : BackoffElapsed(r)

SpecInvoker == Init /\ [][NextInvoker]_vars

\* a started timer fires, and (the claims about termination assume it) an
\* upstream call settles
SpecInvokerFair ==
  /\ SpecInvoker
  /\ \A r \in ReqIds : WF_vars(BackoffElapsed(r)) /\ WF_vars(UpstreamSettles(r))

(***************************************************************************)
(* Repeated requests for one key: NumRepeats requests on the material      *)
(* route whose payloads all derive the key of "Paint", against an upstream *)
(* that answers (with one recommendation or another) or fails with a 503.  *)
(***************************************************************************)
SteadyReplies(route) ==
  {Rejected(503),
   Resolved(<<TextBlock("none", TRUE, Complete(route, "1"))>>),
   Resolved(<<TextBlock("json", TRUE, Complete(route, "2"))>>)}

UpstreamAnswersOrFails(r) ==
  /\ reqs[r].pc = "invoking"
  /\ \E reply \in SteadyReplies(reqs[r].route) : Settle(r, reply)

PaintPayloads ==
  {O([name |-> S(Paint), quantity |-> N(2)]),
   O([name |-> S(PaintSpaced), quantity |-> N(2), unit |-> S(<<"l">>)])}

NextRepeat ==
  \/ \E r \in RepeatIds, payload \in PaintPayloads : Receive(r, OneClient, "enhance-material", payload)
  \/ \E r \in RepeatIds : UpstreamAnswersOrFails(r)
  \/ \E r \in RepeatIds : BackoffElapsed(r)
  \/ \E seconds \in {stdTTL, stdTTL + 1} : Advance(seconds)

SpecRepeat == Init /\ [][NextRepeat]_vars

(***************************************************************************)
(* Key derivation: requests whose payloads differ in the spelling of their *)
(* key fields, or in where a "_" stands in them, against the steady        *)
(* upstream.                                                               *)
(***************************************************************************)
KeyPayloads(route) ==
  CASE route = "enhance-material" ->
         {O([name |-> S(<<"P", "a", "i", "n", "t">>), quantity |-> N(2)]),
          O([name |-> S(<<" ", "p", "a", "i", "n", "t", " ">>), quantity |-> N(2)]),
          O([name |-> S(<<"P", "a", "i", "n", "t">>), category |-> S(<<" ", "C", "o", "a", "t", "i", "n", "g">>), quantity |-> N(2)]),
          O([name |-> S(<<"P", "a", "i", "n", "t">>), category |-> S(<<"c", "o", "a", "t", "i", "n", "g", " ">>), quantity |-> N(2)]),
          O([name |-> S(<<"P", "a", "i", "n", "t">>), specification |-> S(<<"M", "a", "t", "t", "e", " ">>), quantity |-> N(2)]),
          O([name |-> S(<<"P", "a", "i", "n", "t">>), specification |-> S(<<" ", "m", "a", "t", "t", "e">>), quantity |-> N(2)]),
          O([name |-> S(<<"P", "a", "i", "n", "t">>), specification |-> S(<<>>), quantity |-> N(2)]),
          O([name |-> S(<<"P", "a", "i", "n", "t">>), specification |-> S(<<"N", "o", "-", "S", "p", "e", "c">>), quantity |-> N(2)]),
          O([name |-> S(<<"p", "v", "c", "_", "p", "i", "p", "e">>), category |-> S(<<"p", "v", "c">>), quantity |-> N(2)]),
          O([name |-> S(<<"p", "v", "c">>), category |-> S(<<"p", "i", "p", "e", "_", "p", "v", "c">>), quantity |-> N(2)]),
          O([name |-> S(<<"P", "a", "i", "n", "t">>), quantity |-> N(5), unit |-> S(<<"l">>),
             projectContext |-> O([projectTitle |-> S(<<"F", "e", "n", "c", "e">>)])])}
    [] route = "generate-project" ->
         {O([description |-> S(<<"F", "i", "x", " ", "t", "h", "e", " ", "d", "o", "o", "r">>)]),
          O([description |-> S(<<" ", "f", "i", "x", " ", "t", "h", "e", " ", "D", "O", "O", "R", " ">>)]),
          O([description |-> S(<<"F", "i", "x", " ", "t", "h", "e", " ", "d", "o", "o", "r">>),
             context |-> O([experienceLevel |-> S(<<"E", "x", "p", "e", "r", "t">>)])])}
    [] route = "explain-step" ->
         {O([stepTitle |-> S(<<"C", "u", "t">>), projectTitle |-> S(<<"F", "i", "x", " ", "t", "h", "e", " ", "d", "o", "o", "r">>)]),
          O([stepTitle |-> S(<<" ", "c", "u", "t">>), projectTitle |-> S(<<"f", "i", "x", " ", "t", "h", "e", " ", "D", "o", "o", "r", " ">>)]),
          O([stepTitle |-> S(<<"C", "u", "t", " ">>), projectTitle |-> S(<<"F", "i", "x", " ", "t", "h", "e", " ", "d", "o", "o", "r">>)]),
          O([stepTitle |-> S(<<"C", "u", "t">>), projectTitle |-> S(<<" ", "F", "i", "x", " ", "t", "h", "e", " ", "d", "o", "o", "r">>)]),
          O([stepTitle |-> S(<<"C", "u", "t">>), projectTitle |-> S(<<"F", "i", "x", " ", "t", "h", "e", " ", "d", "o", "o", "r">>),
             projectCategory |-> S(<<"D", "o", "o", "r", "s">>)])}

NextKeys ==
  \/ \E r \in ReqIds, route \in Routes : \E payload \in KeyPayloads(route) :
       Receive(r, OneClient, route, payload)
  \/ \E r \in ReqIds : UpstreamAnswersOrFails(r)
  \/ \E r \in ReqIds : BackoffElapsed(r)

SpecKeys == Init /\ [][NextKeys]_vars

(***************************************************************************)
(* The cache functions called on their own: NumRepeats calls of setCached  *)
(* and getCached, one after the other, with time passing and the periodic  *)
(* sweep of node-cache running in between.  A call is recorded in the next *)
(* free slot of reqs: its key, the ttl given (payload), the value given or *)
(* got (result), and whether it returned or threw.                         *)
(***************************************************************************)
CacheKeys == {Key("project_", <<"a">>), Key("step_", <<"b">>)}
CacheValues == {Recommendation("1"), Recommendation("2"), N(0)}
CacheTTLs == {Undef, N(0)}

CallRecord(name, key, ttl, value, returned, event) ==
  [Idle EXCEPT !.pc = "done", !.direct = TRUE, !.route = name, !.key = key,
               !.payload = ttl, !.result = value,
               !.outcome = IF returned THEN "returned" ELSE "thrown",
               !.answeredAt = now, !.log = <<event>>]

CacheSet(r, key, value, ttl) ==
  /\ NextToArrive(r)
  /\ LET stored == setCached(cache, key, value, ttl, now)
     IN /\ reqs' = [reqs EXCEPT ![r] =
                      CallRecord("setCached", key, ttl, value, ~stored.threw,
                                 IF stored.threw THEN "set:threw" ELSE "set")]
        /\ cache' = stored.cache
  /\ UNCHANGED <<now, advances, limiter>>

CacheGet(r, key) ==
  /\ NextToArrive(r)
  /\ LET got == getCached(cache, key, now)
     IN /\ reqs' = [reqs EXCEPT ![r] =
                      CallRecord("getCached", key, Undef, got.value, TRUE,
                                 IF Truthy(got.value) THEN "get:hit" ELSE "get:miss")]
        /\ cache' = got.cache
  /\ UNCHANGED <<now, advances, limiter>>

\* the sweep timer of node-cache fires while something has expired
Sweep ==
  /\ \E k \in DOMAIN cache.data : Expired(cache.data[k], now)
  /\ cache' = NodeCacheSweep(cache, now)
  /\ UNCHANGED <<reqs, now, advances, limiter>>

NextCache ==
  \/ \E r \in RepeatIds, key \in CacheKeys, value \in CacheValues, ttl \in CacheTTLs :
       CacheSet(r, key, value, ttl)
  \/ \E r \in RepeatIds, key \in CacheKeys : CacheGet(r, key)
  \/ Sweep
  \/ \E seconds \in {stdTTL, stdTTL + 1} : Advance(seconds)

SpecCache == Init /\ [][NextCache]_vars

(***************************************************************************)
(* The cache functions with clearCache and getCacheStats among them.       *)
(***************************************************************************)
CacheClear(r) ==
  /\ NextToArrive(r)
  /\ reqs' = [reqs EXCEPT ![r] = CallRecord("clearCache", NoKey, Undef, Undef, TRUE, "clear")]
  /\ cache' = clearCache(cache)
  /\ UNCHANGED <<now, advances, limiter>>

CacheStats(r) ==
  /\ NextToArrive(r)
  /\ reqs' = [reqs EXCEPT ![r] =
                CallRecord("getCacheStats", NoKey, Undef, getCacheStats(cache), TRUE, "stats")]
  /\ UNCHANGED <<cache, now, advances, limiter>>

NextCacheOps ==
  \/ NextCache
  \/ \E r \in RepeatIds : CacheClear(r)
  \/ \E r \in RepeatIds : CacheStats(r)

SpecCacheOps == Init /\ [][NextCacheOps]_vars

(***************************************************************************)
(* The rate limiter: requests of two clients on the material route, each   *)
(* client having hit the limiter never, max - 1 times or max times in a    *)
(* window that is running when the behaviour starts; time passes by the    *)
(* window's length or by one second less.                                  *)
(***************************************************************************)
InitGate ==
  /\ reqs = [r \in AllIds |-> Idle]
  /\ cache = [data |-> NoEntries, hits |-> 0, misses |-> 0, others |-> 0]
  /\ now = 0
  /\ advances = 0
  /\ limiter \in [Clients -> {NoHits} \cup {Hits(n, WindowSeconds, n) : n \in {max - 1, max}}]

NextGate ==
  \/ \E r \in RepeatIds, client \in Clients : \E payload \in Payloads("enhance-material") :
       Receive(r, client, "enhance-material", payload)
  \/ \E r \in RepeatIds : UpstreamAnswersOrFails(r)
  \/ \E r \in RepeatIds : BackoffElapsed(r)
  \/ \E seconds \in {WindowSeconds - 1, WindowSeconds} : Advance(seconds)

SpecGate == InitGate /\ [][NextGate]_vars

(***************************************************************************)
(* Upstream calls per request: requests of two clients behind the rate     *)
(* limiter on the material route, with a payload that passes the payload   *)
(* check, one that fails it, and one that passes it with a category that   *)
(* is no string, against the steady upstream.                              *)
(***************************************************************************)
NextUpstream ==
  \/ \E r \in ReqIds, client \in Clients :
       \E payload \in Payloads("enhance-material")
                        \cup {O([name |-> S(Paint), quantity |-> N(2), category |-> N(5)])} :
         Receive(r, client, "enhance-material", payload)
  \/ \E r \in ReqIds : UpstreamAnswersOrFails(r)
  \/ \E r \in ReqIds : BackoffElapsed(r)
  \/ \E seconds \in {WindowSeconds - 1, WindowSeconds} : Advance(seconds)

SpecUpstream == InitGate /\ [][NextUpstream]_vars

(***************************************************************************)
(* Inbound payloads: requests whose payloads have the required fields      *)
(* present or absent, of the right type or another, empty, zero, and of    *)
(* the least length or one less, with and without the optional fields,     *)
(* against the steady upstream.                                            *)
(***************************************************************************)
InboundPayloads(route) ==
  CASE route = "enhance-material" ->
         {O([name |-> S(Paint), quantity |-> N(2)]),
          O([name |-> S(Paint), quantity |-> N(2), unit |-> S(<<"l">>),
             category |-> S(<<"c">>), specification |-> S(<<"m">>)]),
          O([name |-> S(<<>>), quantity |-> N(2)]),
          O([name |-> S(Paint), quantity |-> N(0)]),
          O([name |-> N(5), quantity |-> N(2)]),
          O([name |-> S(Paint), quantity |-> S(<<"2">>)]),
          O([name |-> S(Paint)]),
          Null}
    [] route = "generate-project" ->
         {O([description |-> S(<<"F", "i", "x", " ", "a", " ", "d", "o", "o", "r">>)]),
          O([description |-> S(<<"F", "i", "x", " ", "d", "o", "o", "r", "s">>)]),
          O([description |-> S(FixTheDoor), skillLevel |-> S(<<"l", "o", "w">>)]),
          O([description |-> N(1234567890)]),
          O([skillLevel |-> S(<<"l", "o", "w">>)])}
    [] route = "explain-step" ->
         {O([stepTitle |-> S(Cut)]),
          O([stepTitle |-> S(Cut), projectTitle |-> S(FixTheDoor)]),
          O([stepTitle |-> S(<<"C", "u">>), projectTitle |-> S(FixTheDoor)]),
          O([stepTitle |-> N(123)]),
          O([projectTitle |-> S(FixTheDoor)])}

NextInbound ==
  \/ \E r \in ReqIds, route \in Routes : \E payload \in InboundPayloads(route) :
       Receive(r, OneClient, route, payload)
  \/ \E r \in ReqIds : UpstreamAnswersOrFails(r)
  \/ \E r \in ReqIds : BackoffElapsed(r)

SpecInbound == Init /\ [][NextInbound]_vars

(***************************************************************************)
(* The response validators and the tool normalization called on their own, *)
(* NumReqs calls one after the other, on decoded values of every shape.    *)
(* A call is recorded in the next free slot of reqs: the function, the     *)
(* value given (payload), and the verdict or the normalized plan (result), *)
(* or that the call threw.                                                 *)
(***************************************************************************)
With(obj, field, value) ==
  O([f \in DOMAIN obj.o \cup {field} |-> IF f = field THEN value ELSE obj.o[f]])

NewStep == O([stepNumber |-> N(1), title |-> S(<<"s">>), instruction |-> S(<<"i">>)])
OldStep == O([order |-> N(1), title |-> S(<<"s">>), instructions |-> S(<<"i">>)])

RecommendationCandidates ==
  {Recommendation("1"),
   With(Recommendation("1"), "alternatives", A(<<>>)),
   With(Recommendation("1"), "alternatives", S(<<"n", "/", "a">>)),
   With(Recommendation("1"), "alternatives", A(<<Alternative, Omit(Alternative, "note")>>)),
   With(Recommendation("1"), "alternatives", A(<<With(Alternative, "brand", S(<<>>))>>)),
   With(Recommendation("1"), "alternatives", A(<<Null>>)),
   With(Recommendation("1"), "primaryBrand", S(<<>>)),
   With(Recommendation("1"), "extra", N(1)),
   Null, Undef, S(<<"o", "k">>), A(<<>>)}
  \cup {Omit(Recommendation("1"), RecommendationFields[i]) :
          i \in 1..Len(RecommendationFields)}

Tool(alternatives) == O([name |-> S(<<"s", "a", "w">>), alternatives |-> alternatives])
ToolAlternative == O([name |-> S(<<"a">>), specification |-> S(<<"s">>)])

PlanCandidates ==
  {ProjectPlan("1"),
   With(ProjectPlan("1"), "steps", A(<<NewStep, OldStep>>)),
   With(ProjectPlan("1"), "steps", A(<<NewStep>>)),
   With(ProjectPlan("1"), "successCriteria", A(<<>>)),
   With(ProjectPlan("1"), "steps", A(<<>>)),
   With(ProjectPlan("1"), "steps", S(<<"s">>)),
   With(ProjectPlan("1"), "steps", A(<<With(NewStep, "stepNumber", N(0))>>)),
   With(ProjectPlan("1"), "steps", A(<<NewStep, Omit(OldStep, "title")>>)),
   With(ProjectPlan("1"), "steps", A(<<Omit(NewStep, "instruction")>>)),
   With(ProjectPlan("1"), "steps", A(<<Null>>)),
   With(ProjectPlan("1"), "materials", S(<<"m">>)),
   With(ProjectPlan("1"), "safetyTips", O([a |-> N(1)])),
   With(ProjectPlan("1"), "commonMistakes", Null),
   With(ProjectPlan("1"), "tools", S(<<"n", "/", "a">>)),
   With(ProjectPlan("1"), "tools", A(<<>>)),
   With(ProjectPlan("1"), "tools", A(<<Tool(Undef), Tool(O([a |-> N(1)]))>>)),
   With(ProjectPlan("1"), "tools",
        A(<<Tool(A(<<ToolAlternative, Omit(ToolAlternative, "name"),
                     With(ToolAlternative, "specification", S(<<>>))>>))>>)),
   With(ProjectPlan("1"), "tools",
        A(<<O([name |-> S(<<>>), required |-> B(FALSE), usage |-> S(<<"u">>),
               specification |-> S(<<"1", "0">>), alternatives |-> A(<<ToolAlternative>>)])>>)),
   With(ProjectPlan("1"), "tools", A(<<Tool(A(<<Null>>))>>)),
   With(ProjectPlan("1"), "tools", A(<<Null>>)),
   Null, S(<<"o", "k">>)}
  \cup {Omit(ProjectPlan("1"), ProjectPlanFields[i]) : i \in 1..Len(ProjectPlanFields)}

ValidateRecommendation(r, candidate) ==
  /\ NextToArrive(r)
  /\ LET verdict == validateRecommendation(candidate)
     IN reqs' = [reqs EXCEPT ![r] =
                   CallRecord("validateRecommendation", NoKey, candidate, verdict,
                              ~verdict.threw, "validate")]
  /\ UNCHANGED <<cache, now, advances, limiter>>

ValidateProjectPlan(r, candidate) ==
  /\ NextToArrive(r)
  /\ LET verdict == validateProjectPlan(candidate)
     IN reqs' = [reqs EXCEPT ![r] =
                   CallRecord("validateProjectPlan", NoKey, candidate, verdict,
                              ~verdict.threw, "validate")]
  /\ UNCHANGED <<cache, now, advances, limiter>>

\* the normalization pass of generateProjectPlan on a decoded plan
Normalize(r, candidate) ==
  /\ NextToArrive(r)
  /\ LET normalized == NormalizeTools(candidate)
     IN reqs' = [reqs EXCEPT ![r] =
                   CallRecord("normalize", NoKey, candidate, normalized.plan,
                              ~normalized.threw, "normalize")]
  /\ UNCHANGED <<cache, now, advances, limiter>>

NextValidators ==
  \/ \E r \in ReqIds, candidate \in RecommendationCandidates :
       ValidateRecommendation(r, candidate)
  \/ \E r \in ReqIds, candidate \in PlanCandidates : ValidateProjectPlan(r, candidate)
  \/ \E r \in ReqIds, candidate \in PlanCandidates : Normalize(r, candidate)

SpecValidators == Init /\ [][NextValidators]_vars

(***************************************************************************)
(* Properties.                                                             *)
(***************************************************************************)
Arrives(r) == reqs[r].pc = "idle" /\ reqs'[r].pc # "idle"
Answers(r) == reqs[r].pc # "done" /\ reqs'[r].pc = "done"

\* the request ended in FATAL_FAILURE right after the attempt that raised
\* its last error: no upstream call and no backoff wait came after it
FatalAfterLastError(req) ==
  /\ req.pc = "done"
  /\ req.outcome = "thrown"
  /\ req.calls = req.lastError.at + 1
  /\ Len(req.waits) = req.lastError.at

\* C1: an attempt that fails because the upstream answered 401 ends the call
\* in FATAL_FAILURE at once, with no backoff wait and no further upstream
\* call (one call and no wait when it is the first attempt), whatever
\* maxRetries is.
C1_AuthNeverRetried ==
  \A r \in ReqIds : reqs[r].lastFault = "AUTH" => FatalAfterLastError(reqs[r])

\* the handler of request r reached its cache write
SetAttempted(req) == \E i \in 1..Len(req.log) : req.log[i] \in {"set", "set:threw"}

\* C2: whenever the retrying caller has returned a value on a cache miss and
\* the handler has gone on to write it to the cache, the request is answered
\* success:true, cached:false with that value as data, also when the cache
\* write fails.
C2_CacheWriteNeverFatal ==
  \A r \in ReqIds :
    (reqs[r].pc = "done" /\ reqs[r].outcome = "returned" /\ SetAttempted(reqs[r]))
    => reqs[r].response = Success(RouteData(reqs[r].route, reqs[r].result), FALSE)

\* an entry whose expiry time has not passed
Live(c, key, clock) == key \in DOMAIN c.data /\ c.data[key].t >= clock

\* C3: a request of any route that passes the payload check and whose key
\* has a live cache entry is answered success:true, cached:true with the
\* stored value as data, calls the upstream API zero times and writes
\* nothing to the cache.
C3_CacheHitPath ==
  [][\A r \in ReqIds :
       LET req == reqs'[r]
           key == DeriveKey(req.route, req.payload).key
       IN (/\ Arrives(r)
           /\ ValidatePayload(req.route, req.payload).valid
           /\ ~DeriveKey(req.route, req.payload).threw
           /\ Live(cache, key, now))
          => /\ req.pc = "done"
             /\ req.response = Success(RouteData(req.route, cache.data[key].v), TRUE)
             /\ req.calls = 0
             /\ ~SetAttempted(req)
             /\ cache'.data = cache.data]_vars

C3_Witness ==
  \E r \in ReqIds :
    /\ reqs[r].route = "generate-project"
    /\ reqs[r].log = <<"get:hit", "respond">>
    /\ reqs[r].response.cached = B(TRUE)

\* the events of a request that missed and was answered after `attempt`
\* failed attempts
RECURSIVE Rounds(_)
Rounds(attempt) == IF attempt = 0 THEN <<>> ELSE <<"wait", "invoke">> \o Rounds(attempt - 1)
MissLog(attempt) == <<"get:miss", "invoke">> \o Rounds(attempt) \o <<"set", "respond">>

\* the value passes the check explain-step makes in the route itself
RouteAccepts(route, value) ==
  route = "explain-step" => Truthy(value) /\ TypeofObject(value) /\ MissingFields(value) = <<>>

\* C4: a valid request whose key has no live entry and whose retrying caller
\* returns a value performs, in this order, the cache read (a miss), the
\* upstream calls, the cache write of the returned value under the same key
\* and the response with cached:false; the upstream is called exactly once
\* when the first attempt succeeds, and the data answered is the value
\* stored.
C4_MissPathOrder ==
  [][\A r \in ReqIds :
       LET req == reqs'[r]
       IN (Answers(r) /\ req.outcome = "returned" /\ RouteAccepts(req.route, req.result))
          => /\ req.log = MissLog(req.attempt)
             /\ req.calls = req.attempt + 1
             /\ req.response = Success(RouteData(req.route, req.result), FALSE)
             /\ req.key \in DOMAIN cache'.data
             /\ cache'.data[req.key].v = req.result]_vars

ShapeOk(route, payload) ==
  CASE route = "enhance-material" ->
         IsString(Prop(payload, "name")) /\ IsNumber(Prop(payload, "quantity"))
    [] route = "generate-project" ->
         /\ IsString(Prop(payload, "description"))
         /\ Len(Prop(payload, "description").s) >= 10
    [] route = "explain-step" ->
         /\ IsString(Prop(payload, "stepTitle"))
         /\ Len(Prop(payload, "stepTitle").s) >= 3

\* C6: a request of any route whose payload fails the inbound shape check
\* (the rules above, or the route's validator) is answered 400 with
\* success:false at once: no cache read, no cache write, no upstream call,
\* the entries and the hit/miss counters unchanged.
C6_ValidationFailFast ==
  [][\A r \in ReqIds :
       LET req == reqs'[r]
       IN (/\ Arrives(r)
           /\ \/ ~ShapeOk(req.route, req.payload)
              \/ ~ValidatePayload(req.route, req.payload).valid)
          => /\ req.pc = "done"
             /\ req.response.status = 400
             /\ ~req.response.success
             /\ req.calls = 0
             /\ req.log = <<"respond">>
             /\ cache' = cache]_vars

C6_Witness ==
  \E r \in ReqIds :
    /\ reqs[r].route = "enhance-material"
    /\ reqs[r].payload = O([quantity |-> N(2)])
    /\ reqs[r].response.status = 400
    /\ reqs[r].response.message = <<"Material name is required and must be a string">>

Retryable == {"UPSTREAM_RATE_LIMIT", "UPSTREAM_SERVER", "DECODE", "CONTRACT"}

\* C7: in each retrying caller, an attempt that fails with a rate limit
\* (429), a server error (5xx), undecodable text or a contract failure,
\* fewer than maxRetries + 1 attempts having been made, is followed by a
\* backoff wait and then by a further attempt.
C7_RetryableRetried ==
  /\ [](\A r \in ReqIds :
          LET req == reqs[r]
          IN (req.lastFault \in Retryable /\ req.lastError.at < req.maxRetries)
             => \/ /\ req.pc = "waiting"
                   /\ req.attempt = req.lastError.at
                   /\ Len(req.waits) = req.attempt + 1
                \/ /\ req.pc = "invoking"
                   /\ req.attempt = req.lastError.at + 1
                   /\ req.calls = req.attempt + 1)
  /\ \A r \in ReqIds, k \in 0..MaxRetriesArg :
       (reqs[r].pc = "waiting" /\ reqs[r].attempt = k)
       ~> (reqs[r].pc = "invoking" /\ reqs[r].attempt = k + 1)

C7_Witness ==
  \E r \in ReqIds :
    /\ reqs[r].route = "generate-project"
    /\ reqs[r].lastFault = "CONTRACT"
    /\ reqs[r].pc = "invoking"
    /\ reqs[r].attempt = 2

\* the upstream 4xx answers other than 401 and 429 end the call at once
C8_OtherClientErrorsStop ==
  \A r \in ReqIds : reqs[r].lastFault = "CLIENT_REQUEST" => FatalAfterLastError(reqs[r])

\* C8: an attempt that fails with an upstream 4xx other than 429 ends the
\* call in FATAL_FAILURE at once, with no backoff wait and no further
\* upstream call, however many retries remain.
C8_ClientErrorsStop ==
  \A r \in ReqIds :
    reqs[r].lastFault \in {"AUTH", "CLIENT_REQUEST"} => FatalAfterLastError(reqs[r])

C8_Witness ==
  \E r \in ReqIds :
    /\ reqs[r].lastFault = "CLIENT_REQUEST"
    /\ reqs[r].lastError.status = 404
    /\ reqs[r].pc = "done"
    /\ reqs[r].attempt = 1
    /\ reqs[r].maxRetries = 3

\* C9: a call with maxRetries = n makes at most n + 1 upstream calls (3 when
\* maxRetries is left out); it ends, every upstream call settling, in
\* exactly one of SUCCESS (a value returned) and FATAL_FAILURE (an error
\* thrown); and nothing is started after it has ended.
C9_RetryBound ==
  /\ [](\A r \in ReqIds :
          LET req == reqs[r]
          IN /\ req.calls <= req.maxRetries + 1
             /\ (req.args = <<>> => req.calls <= 3)
             /\ (req.pc = "done" <=> req.outcome \in {"returned", "thrown"})
             /\ (req.outcome = "thrown" => req.lastError # NoError)
             /\ (req.outcome = "returned" => req.lastError = NoError))
  /\ [][\A r \in ReqIds : reqs[r].pc = "done" => reqs'[r] = reqs[r]]_vars
  /\ \A r \in ReqIds : (reqs[r].pc # "idle") ~> (reqs[r].pc = "done")

C9_Witness ==
  \E r \in ReqIds :
    /\ reqs[r].outcome = "thrown"
    /\ reqs[r].maxRetries = 3
    /\ reqs[r].calls = 4

\* the backoff schedule in milliseconds: 1 s, 2 s, 4 s, ...
Schedule == <<1000, 2000, 4000, 8000, 16000>>

\* C10: the wait after failed attempt k, before attempt k + 1, is 2^k
\* seconds, and no wait follows the last attempt allowed; with maxRetries
\* left out, a call that succeeds on its third attempt has waited 1 s and
\* then 2 s.
C10_BackoffSchedule ==
  \A r \in ReqIds :
    LET req == reqs[r]
    IN /\ req.waits = SubSeq(Schedule, 1, Len(req.waits))
       /\ Len(req.waits) = IF req.pc = "waiting" THEN req.attempt + 1 ELSE req.attempt
       /\ Len(req.waits) <= req.maxRetries
       /\ (req.pc = "done" => Len(req.waits) = req.calls - 1)
       /\ (req.args = <<>> /\ req.outcome = "returned" /\ req.calls = 3
           => req.waits = <<1000, 2000>>)

C10_Witness ==
  \E r \in ReqIds :
    /\ reqs[r].args = <<>>
    /\ reqs[r].direct
    /\ reqs[r].outcome = "returned"
    /\ reqs[r].waits = <<1000, 2000>>

\* C11: a retrying caller that gives up on its last permitted attempt throws
\* the error that attempt raised, the very object: not the error of an
\* earlier attempt and not a new error around it.
C11_LastErrorSurfaced ==
  \A r \in ReqIds :
    LET req == reqs[r]
    IN (req.pc = "done" /\ req.outcome = "thrown" /\ req.attempt = req.maxRetries)
       => /\ req.thrown = req.lastError
          /\ req.thrown # NoError
          /\ req.thrown.at = req.maxRetries
          /\ req.calls = req.maxRetries + 1

C11_Witness ==
  \E r \in ReqIds :
    /\ reqs[r].direct
    /\ reqs[r].outcome = "thrown"
    /\ reqs[r].maxRetries = 2
    /\ reqs[r].thrown = Error(<<"Invalid JSON response from Claude API">>, 0, 2)

\* the answer the error classification of the interface asks for
MappedAsDesigned(req) ==
  IF ~ValidatePayload(req.route, req.payload).valid THEN req.response.status = 400
  ELSE IF req.outcome = "thrown" /\ req.lastFault = "AUTH"
  THEN req.response.status = 500 /\ req.response.error = "Configuration error"
  ELSE IF req.outcome = "thrown" /\ req.lastFault = "UPSTREAM_RATE_LIMIT"
  THEN req.response.status = 429
  ELSE IF req.outcome = "thrown" /\ req.lastFault = "DECODE"
  THEN req.response.status = 500 /\ req.response.error = "Invalid response"
  ELSE req.response.status = 500

\* the two routes that pass their errors to errorHandler map them so
C12_MappingOfErrorHandler ==
  \A r \in ReqIds :
    (reqs[r].pc = "done" /\ ~reqs[r].direct /\ ~reqs[r].response.success
     /\ reqs[r].route # "explain-step")
    => MappedAsDesigned(reqs[r])

\* C12: on each of the three routes a request that ends in failure is
\* answered 400 for a payload that fails validation, 500 "Configuration
\* error" for an upstream auth failure, 429 for an upstream rate limit that
\* outlasted the retries, 500 "Invalid response" for a decode failure and
\* 500 for anything else.
C12_ErrorStatusMapping ==
  \A r \in ReqIds :
    (reqs[r].pc = "done" /\ ~reqs[r].direct /\ ~reqs[r].response.success)
    => MappedAsDesigned(reqs[r])

\* a request whose key has been derived
Keyed(req) == req.key # NoKey

\* the material key separates payloads whose normalized fields hold no "_"
C13_InjectiveWithoutSeparator ==
  \A a, b \in ReqIds :
    (/\ Keyed(reqs[a]) /\ Keyed(reqs[b])
     /\ reqs[a].route = "enhance-material" /\ reqs[b].route = "enhance-material"
     /\ NormalizedFields(reqs[a].payload) # NormalizedFields(reqs[b].payload)
     /\ \A i \in 1..3 : \A j \in 1..Len(NormalizedFields(reqs[a].payload)[i]) :
          NormalizedFields(reqs[a].payload)[i][j] # "_")
    => reqs[a].key # reqs[b].key

\* C13: generateCacheKey gives equal payloads equal keys, and gives different
\* keys to two payloads whose name, category and specification, lower-cased
\* and trimmed, are not the same three texts (the digest taken to be free
\* of collisions).
C13_KeyDeterministicInjective ==
  \A a, b \in ReqIds :
    (/\ Keyed(reqs[a]) /\ Keyed(reqs[b])
     /\ reqs[a].route = "enhance-material" /\ reqs[b].route = "enhance-material")
    => /\ reqs[a].payload = reqs[b].payload => reqs[a].key = reqs[b].key
       /\ NormalizedFields(reqs[a].payload) # NormalizedFields(reqs[b].payload)
          => reqs[a].key # reqs[b].key

\* the free-text fields a route's key is made of
KeyFieldNames(route) ==
  CASE route = "enhance-material" -> {"name", "category", "specification"}
    [] route = "generate-project" -> {"description"}
    [] route = "explain-step" -> {"stepTitle", "projectTitle"}

\* a text without its letter case and its leading and trailing white space
Spelled(v) == IF IsString(v) THEN S(trim(toLowerCase(v.s))) ELSE v

\* two payloads that differ at most in letter case and in leading or
\* trailing white space of key fields
SameButSpelling(route, p, q) ==
  \A field \in KeyFieldNames(route) : Spelled(Prop(p, field)) = Spelled(Prop(q, field))

\* the material and the project key ignore case and outer white space
C14_FieldwiseKeysIgnoreSpelling ==
  \A a, b \in ReqIds :
    (/\ Keyed(reqs[a]) /\ Keyed(reqs[b])
     /\ reqs[a].route = reqs[b].route
     /\ reqs[a].route # "explain-step"
     /\ SameButSpelling(reqs[a].route, reqs[a].payload, reqs[b].payload))
    => reqs[a].key = reqs[b].key

\* C14: on every route, two payloads that differ only in letter case or in
\* leading or trailing white space of a free-text key field (material name,
\* category, specification; project description; step title, project
\* title) derive the same cache key.
C14_KeysIgnoreSpelling ==
  \A a, b \in ReqIds :
    (/\ Keyed(reqs[a]) /\ Keyed(reqs[b])
     /\ reqs[a].route = reqs[b].route
     /\ SameButSpelling(reqs[a].route, reqs[a].payload, reqs[b].payload))
    => reqs[a].key = reqs[b].key

\* a call of setCached or getCached made on its own
SetCall(r) == Arrives(r) /\ reqs'[r].route = "setCached"
GetCall(r) == Arrives(r) /\ reqs'[r].route = "getCached"

\* C15: the store never holds more than maxKeys (1000) entries, and a set of
\* a new key while it holds that many fails and leaves every entry, its
\* key, value and expiry time, as it was.
C15_CacheCapacity ==
  /\ [](StatsKeys(cache) <= maxKeys)
  /\ [][\A r \in RepeatIds :
         (SetCall(r) /\ StatsKeys(cache) = maxKeys /\ reqs'[r].key \notin DOMAIN cache.data)
         => /\ reqs'[r].outcome = "thrown"
            /\ cache'.data = cache.data
            /\ cache'.others = cache.others]_vars

C15_Witness ==
  \E r \in RepeatIds :
    /\ reqs[r].route = "setCached"
    /\ reqs[r].outcome = "thrown"
    /\ reqs[r].key \notin DOMAIN cache.data
    /\ cache.data # NoEntries
    /\ StatsKeys(cache) = maxKeys

\* the latest successful setCached for `key` among the calls before call r,
\* 0 when there is none
LastSet(key, r) ==
  LET sets == {q \in RepeatIds : /\ q < r
                                 /\ reqs[q].route = "setCached"
                                 /\ reqs[q].key = key
                                 /\ reqs[q].outcome = "returned"}
  IN IF sets = {} THEN 0 ELSE CHOOSE q \in sets : \A p \in sets : p <= q

\* the TTL of the entry that call q stored is over
TTLElapsed(q) ==
  /\ reqs[q].payload # N(0)
  /\ now > reqs[q].answeredAt + (IF Truthy(reqs[q].payload) THEN reqs[q].payload.n
                                  ELSE stdTTL)

\* C16: once the TTL of an entry is over, getCached for its key returns null,
\* the sweep having run or not; so an entry swept, or read as expired, is
\* returned by no later get unless the key has been set again.
C16_CacheExpiry ==
  [][\A r \in RepeatIds :
       GetCall(r)
       => LET q == LastSet(reqs'[r].key, r)
          IN (q = 0 \/ TTLElapsed(q)) => reqs'[r].result = Null]_vars

C16_Witness ==
  \E a, b, c \in RepeatIds :
    /\ a < b /\ b < c
    /\ reqs[a].route = "setCached" /\ reqs[a].outcome = "returned"
    /\ reqs[a].result = Recommendation("1")
    /\ reqs[b].route = "getCached" /\ reqs[b].key = reqs[a].key
    /\ reqs[b].answeredAt = reqs[a].answeredAt + stdTTL + 1
    /\ reqs[b].result = Null
    /\ reqs[c].route = "getCached" /\ reqs[c].key = reqs[a].key
    /\ reqs[c].result = Null
    /\ reqs[a].key \notin DOMAIN cache.data

\* C17 as stated: a getCached for a key whose latest setCached succeeded,
\* with a TTL that is not over, returns the value that was set, whatever
\* the value.
C17_RoundTripAnyValue ==
  [][\A r \in RepeatIds :
       GetCall(r)
       => LET q == LastSet(reqs'[r].key, r)
          IN (q # 0 /\ ~TTLElapsed(q)) => reqs'[r].result = reqs[q].result]_vars

\* C17 as amended: it returns the value that was set when that value is
\* truthy, as every object is; a falsy value (0, "", false, null) reads as
\* absent.
C17_RoundTripTruthy ==
  [][\A r \in RepeatIds :
       GetCall(r)
       => LET q == LastSet(reqs'[r].key, r)
          IN (q # 0 /\ ~TTLElapsed(q))
             => reqs'[r].result = (IF Truthy(reqs[q].result) THEN reqs[q].result ELSE Null)]_vars

C17_Witness ==
  \E a, b \in RepeatIds :
    /\ b = a + 1
    /\ reqs[a].route = "setCached" /\ reqs[a].outcome = "returned"
    /\ reqs[a].result = Recommendation("2")
    /\ reqs[b].route = "getCached" /\ reqs[b].key = reqs[a].key
    /\ reqs[b].answeredAt = reqs[a].answeredAt
    /\ reqs[b].result = Recommendation("2")

InFlight(req) == req.pc \in {"invoking", "waiting"}

\* C18: a valid request that arrives while its key has no live entry and
\* another request for the same key is in flight starts an upstream call of
\* its own and leaves the other as it is; two upstream calls for one key
\* are in flight together; and a request that succeeds is answered with
\* the result of its own call.
C18_NoSingleFlight ==
  /\ [][\A a, b \in RepeatIds :
         (/\ a # b
          /\ Arrives(b)
          /\ InFlight(reqs[a])
          /\ ValidatePayload(reqs'[b].route, reqs'[b].payload).valid
          /\ reqs[a].key = DeriveKey(reqs'[b].route, reqs'[b].payload).key
          /\ ~Live(cache, reqs[a].key, now))
         => /\ reqs'[b].pc = "invoking"
            /\ reqs'[b].calls = 1
            /\ reqs'[b].key = reqs[a].key
            /\ reqs'[a] = reqs[a]]_vars
  /\ [][\A b \in RepeatIds :
         (Answers(b) /\ reqs'[b].outcome = "returned" /\ reqs'[b].response.success)
         => /\ reqs'[b].response.data = RouteData(reqs'[b].route, reqs'[b].result)
            /\ \A a \in RepeatIds \ {b} : reqs'[a] = reqs[a]]_vars

C18_Witness ==
  \E a, b \in RepeatIds :
    /\ a # b
    /\ reqs[a].pc = "invoking" /\ reqs[b].pc = "invoking"
    /\ reqs[a].key = reqs[b].key
    /\ reqs[a].payload # reqs[b].payload

\* C19: whatever requests are suspended in an upstream call or in a backoff
\* wait, the next request can be taken in (the condition under which a
\* handler starts does not look at them); one that arrives then and finds
\* a live entry is checked and answered from the cache in that same step;
\* and a step of one request changes no other request, each keeping its
\* own attempt counter and its own backoff waits.
C19_SuspendedDoNotBlock ==
  /\ [](\A b \in RepeatIds :
          (/\ reqs[b].pc = "idle"
           /\ \A q \in AllIds : q < b => reqs[q].pc # "idle"
           /\ \E a \in RepeatIds : InFlight(reqs[a]))
          => NextToArrive(b))
  /\ [][\A b \in RepeatIds :
         (/\ Arrives(b)
          /\ \E a \in RepeatIds : InFlight(reqs[a])
          /\ Live(cache, DeriveKey(reqs'[b].route, reqs'[b].payload).key, now))
         => /\ reqs'[b].pc = "done"
            /\ reqs'[b].response.cached = B(TRUE)
            /\ reqs'[b].calls = 0]_vars
  /\ [][\A a, b \in RepeatIds : (a # b /\ reqs'[a] # reqs[a]) => reqs'[b] = reqs[b]]_vars
  /\ [](\A a \in RepeatIds :
          InFlight(reqs[a])
          => /\ reqs[a].calls = reqs[a].attempt + 1
             /\ reqs[a].waits = SubSeq(Schedule, 1, Len(reqs[a].waits))
             /\ Len(reqs[a].waits) =
                  IF reqs[a].pc = "waiting" THEN reqs[a].attempt + 1 ELSE reqs[a].attempt)

C19_Witness ==
  \E a, b, c \in RepeatIds :
    /\ a < b /\ c < b
    /\ reqs[a].pc = "waiting" /\ reqs[a].attempt = 1
    /\ reqs[c].pc = "done" /\ reqs[c].response.cached = B(FALSE) /\ reqs[c].attempt = 0
    /\ reqs[b].log = <<"get:hit", "respond">>
    /\ reqs[b].response.cached = B(TRUE)

\* the request was answered by the rate limiter / was passed on to its route
Limited(req) == req.log # <<>> /\ Head(req.log) = "limited"
ReachedHandler(req) == req.pc # "idle" /\ ~Limited(req)

\* the requests of a client in the window that ends at w
CountedIn(c, w) == {q \in AllIds : reqs[q].client = c /\ reqs[q].window = w}
\* how many requests the client has made in its running window
InWindow(c) ==
  IF now < limiter[c].resetAt
  THEN limiter[c].earlier + Cardinality(CountedIn(c, limiter[c].resetAt))
  ELSE 0

\* C20: every request is counted by the rate limiter of its client before
\* its route runs; in one window of a client at most max of the client's
\* requests reach a route; a request of a client that has made max or more
\* requests in its running window is answered 429 at once, with no payload
\* check, no cache access and no upstream call, and any other request
\* reaches its route, whatever the other clients have sent.
C20_RateGatePrecedesHandlers ==
  /\ [](\A c \in Clients : now < limiter[c].resetAt => limiter[c].count = InWindow(c))
  /\ [](\A c \in Clients : \A w \in {reqs[q].window : q \in AllIds} :
          Cardinality({q \in CountedIn(c, w) : ReachedHandler(reqs[q])})
            + (IF w = limiter[c].resetAt THEN limiter[c].earlier ELSE 0) <= max)
  /\ [][\A r \in RepeatIds :
          Arrives(r) =>
            LET c == reqs'[r].client
            IN IF InWindow(c) >= max
               THEN /\ reqs'[r].pc = "done"
                    /\ reqs'[r].response = handler
                    /\ reqs'[r].response.status = 429
                    /\ reqs'[r].log = <<"limited", "respond">>
                    /\ reqs'[r].calls = 0
                    /\ reqs'[r].key = NoKey
                    /\ cache' = cache
               ELSE ReachedHandler(reqs'[r])]_vars

\* a client's request reaches its route, the client's next request, with a
\* payload its route would refuse, is answered 429, and a request another
\* client sends after that reaches its route
C20_Witness ==
  \E a, b, d \in RepeatIds :
    /\ a < b /\ b < d
    /\ reqs[a].client = reqs[b].client /\ reqs[a].window = reqs[b].window
    /\ ReachedHandler(reqs[a])
    /\ Limited(reqs[b])
    /\ ~ValidatePayload(reqs[b].route, reqs[b].payload).valid
    /\ reqs[d].client \in Clients \ {reqs[b].client}
    /\ ReachedHandler(reqs[d])
    /\ limiter[reqs[d].client].count > 1

\* the value passes the response check of the route whose keys carry `prefix`
PassesValidator(prefix, value) ==
  CASE prefix = "" -> validateRecommendation(value).valid
    [] prefix = "project_" -> validateProjectPlan(value).valid
    [] prefix = "step_" ->
         /\ Truthy(value) /\ TypeofObject(value)
         /\ \A i \in 1..Len(ExplanationFields) : HasProp(value, ExplanationFields[i])
    [] OTHER -> FALSE

Refused(req) == req.pc = "done" /\ req.response.status = 400 /\ req.log = <<"respond">>
Accepted(req) == req.pc # "idle" /\ ~Refused(req)

\* the inbound rules with what the checks add to them: the name not empty,
\* the quantity not zero
ShapeOkAndFilled(route, payload) ==
  /\ ShapeOk(route, payload)
  /\ route = "enhance-material" =>
       Len(Prop(payload, "name").s) > 0 /\ Prop(payload, "quantity").n # 0

\* C22 as stated: a material payload is accepted exactly when name is a
\* string and quantity is a number, a project payload exactly when
\* description is a string of length >= 10, a step payload exactly when
\* stepTitle is a string of length >= 3.
C22_InboundRulesExact ==
  \A r \in ReqIds :
    reqs[r].pc # "idle" => (Accepted(reqs[r]) <=> ShapeOk(reqs[r].route, reqs[r].payload))

\* What holds of the inbound checks: a material payload is accepted exactly
\* when name is a non-empty string and quantity is a number other than
\* zero, a project payload exactly when description is a string of length
\* >= 10, a step payload exactly when stepTitle is a string of length >= 3;
\* whether the optional fields are there does not matter.
C22_InboundRulesFilled ==
  \A r \in ReqIds :
    reqs[r].pc # "idle" =>
      (Accepted(reqs[r]) <=> ShapeOkAndFilled(reqs[r].route, reqs[r].payload))

\* a material payload whose name is a string and whose quantity is the
\* number 0 was refused
C22_Witness ==
  \E a \in ReqIds :
    /\ reqs[a].route = "enhance-material" /\ Refused(reqs[a])
    /\ IsString(Prop(reqs[a].payload, "name"))
    /\ Prop(reqs[a].payload, "quantity") = N(0)

\* a recorded call of validateProjectPlan, and its verdict
PlanCall(r) == reqs[r].pc = "done" /\ reqs[r].route = "validateProjectPlan"
NoSteps(plan) ==
  ~HasProp(plan, "steps") \/ ~IsArray(Prop(plan, "steps")) \/ Len(Prop(plan, "steps").a) = 0

\* the step carries an identifier, a title and an instruction, under either
\* name of each
StepCarries(step) ==
  /\ HasProp(step, "stepNumber") \/ HasProp(step, "order")
  /\ HasProp(step, "title")
  /\ HasProp(step, "instruction") \/ HasProp(step, "instructions")

\* the same with a value that JavaScript takes for true under each
StepFilled(step) ==
  /\ Truthy(Prop(step, "stepNumber")) \/ Truthy(Prop(step, "order"))
  /\ Truthy(Prop(step, "title"))
  /\ Truthy(Prop(step, "instruction")) \/ Truthy(Prop(step, "instructions"))

PlanComplete(plan, StepOk(_)) ==
  /\ \A i \in 1..Len(ProjectPlanFields) : HasProp(plan, ProjectPlanFields[i])
  /\ ~NoSteps(plan)
  /\ \A i \in 1..Len(Prop(plan, "steps").a) : StepOk(Prop(plan, "steps").a[i])
  /\ \A f \in {"materials", "tools", "safetyTips", "commonMistakes"} : IsArray(Prop(plan, f))

\* C23: validateProjectPlan rejects a plan without steps or whose steps is
\* not a non-empty array, and accepts a plan that has all the required
\* fields, steps each carrying stepNumber or order, title, and instruction
\* or instructions, and arrays for materials, tools, safetyTips and
\* commonMistakes, with or without successCriteria.
C23_ProjectPlanValidator ==
  \A r \in ReqIds :
    PlanCall(r) =>
      /\ NoSteps(reqs[r].payload) => reqs[r].outcome = "returned" /\ ~reqs[r].result.valid
      /\ PlanComplete(reqs[r].payload, StepCarries) => reqs[r].result.valid

\* What holds: the same, for steps whose identifier, title and instruction
\* are neither 0 nor empty.
C23_ProjectPlanValidatorFilled ==
  \A r \in ReqIds :
    PlanCall(r) =>
      /\ NoSteps(reqs[r].payload) => reqs[r].outcome = "returned" /\ ~reqs[r].result.valid
      /\ PlanComplete(reqs[r].payload, StepFilled) => reqs[r].result.valid

\* a complete plan whose only step has the stepNumber 0 was rejected
C23_Witness ==
  \E r \in ReqIds :
    /\ PlanCall(r)
    /\ PlanComplete(reqs[r].payload, StepCarries)
    /\ \E i \in 1..Len(Prop(reqs[r].payload, "steps").a) :
         Prop(Prop(reqs[r].payload, "steps").a[i], "stepNumber") = N(0)
    /\ ~reqs[r].result.valid

\* a recorded run of the normalization pass that returned, on a plan whose
\* tools is an array
NormalizeCall(r) ==
  /\ reqs[r].pc = "done" /\ reqs[r].route = "normalize" /\ reqs[r].outcome = "returned"
  /\ IsArray(Prop(reqs[r].payload, "tools"))

Elems(seq) == {seq[i] : i \in 1..Len(seq)}

\* what the pass made of one tool
ToolNormalized(tool, out) ==
  /\ DOMAIN out.o = {"name", "specification", "required", "alternatives", "usage"}
  /\ IsArray(Prop(out, "alternatives"))
  /\ ~IsArray(Prop(tool, "alternatives")) => Prop(out, "alternatives") = A(<<>>)
  /\ IsArray(Prop(tool, "alternatives")) =>
       Elems(Prop(out, "alternatives").a) \subseteq Elems(Prop(tool, "alternatives").a)
  /\ \A alt \in Elems(Prop(out, "alternatives").a) :
       HasProp(alt, "name") /\ HasProp(alt, "specification")
  /\ ~HasProp(tool, "specification") => Prop(out, "specification") = S(<<>>)
  /\ ~HasProp(tool, "usage") => Prop(out, "usage") = S(<<>>)
  /\ ~HasProp(tool, "required") => Prop(out, "required") = B(TRUE)
  /\ HasProp(tool, "required") /\ Prop(tool, "required") # Null =>
       Prop(out, "required") = Prop(tool, "required")

RecommendationCall(r) == reqs[r].pc = "done" /\ reqs[r].route = "validateRecommendation"

\* an object with the seven required fields, alternatives an array whose
\* elements each pass AltOk
RecommendationComplete(candidate, AltOk(_)) ==
  /\ candidate.t = "object"
  /\ \A i \in 1..Len(RecommendationFields) : HasProp(candidate, RecommendationFields[i])
  /\ IsArray(Prop(candidate, "alternatives"))
  /\ \A alt \in Elems(Prop(candidate, "alternatives").a) : AltOk(alt)

AltHas(alt) == HasProp(alt, "brand") /\ HasProp(alt, "model") /\ HasProp(alt, "note")
AltFilled(alt) == ~PropThrows(alt) /\ ~AltIncomplete(alt)

\* C25: validateRecommendation never throws, and returns valid exactly when
\* the candidate is an object with primaryBrand, primaryModel,
\* specification, reasoning, alternatives, buyingTips and
\* quantitySuggestion, alternatives an array, each of its elements having
\* brand, model and note; otherwise it returns invalid with a reason.
C25_RecommendationValidator ==
  \A r \in ReqIds :
    RecommendationCall(r) =>
      /\ reqs[r].outcome = "returned"
      /\ reqs[r].result.valid <=> RecommendationComplete(reqs[r].payload, AltHas)
      /\ ~reqs[r].result.valid => reqs[r].result.error # <<>>

\* What holds: whenever no element of alternatives is null, the validator
\* returns, valid exactly when the candidate is such an object and brand,
\* model and note of each alternative are neither missing nor empty, and
\* with a reason when invalid.
C25_RecommendationValidatorFilled ==
  \A r \in ReqIds :
    (/\ RecommendationCall(r)
     /\ IsArray(Prop(reqs[r].payload, "alternatives")) =>
          Null \notin Elems(Prop(reqs[r].payload, "alternatives").a))
    => /\ reqs[r].outcome = "returned"
       /\ reqs[r].result.valid <=> RecommendationComplete(reqs[r].payload, AltFilled)
       /\ ~reqs[r].result.valid => reqs[r].result.error # <<>>

\* the validator threw on a candidate that has every required field and an
\* alternatives array holding null
C25_Witness ==
  \E r \in ReqIds :
    /\ RecommendationCall(r)
    /\ \A i \in 1..Len(RecommendationFields) : HasProp(reqs[r].payload, RecommendationFields[i])
    /\ Prop(reqs[r].payload, "alternatives") = A(<<Null>>)
    /\ reqs[r].outcome = "thrown"

\* a decoded step explanation that lacks one of the required fields
Lacking(value) ==
  value.t = "object" /\ \E i \in 1..Len(ExplanationFields) : ~HasProp(value, ExplanationFields[i])

\* the step request whose latest upstream answer was such an explanation
GotLacking(req) == req.route = "explain-step" /\ ~req.direct /\ Lacking(req.result)

\* C26: a step-explanation attempt that the upstream answers with
\* well-formed JSON lacking explanation, keyPoints, visualCues,
\* estimatedTime or commonMistakes is a failed attempt, followed by a
\* further attempt while the retry bound allows: a request is answered on
\* such an answer only after maxRetries + 1 attempts, never with success,
\* and the answer is never cached.
C26_StepContractRetried ==
  \A r \in ReqIds :
    GotLacking(reqs[r]) =>
      /\ reqs[r].pc = "done" => reqs[r].attempt = reqs[r].maxRetries
      /\ ~reqs[r].response.success
      /\ \A k \in DOMAIN cache.data : cache.data[k].v # reqs[r].result

\* What holds: such an answer is never returned as success and never cached.
C26_StepContractNotServed ==
  \A r \in ReqIds :
    GotLacking(reqs[r]) =>
      /\ ~reqs[r].response.success
      /\ \A k \in DOMAIN cache.data : cache.data[k].v # reqs[r].result

\* a step request was answered "Incomplete response" after one upstream
\* call, no wait made
C26_Witness ==
  \E r \in ReqIds :
    /\ GotLacking(reqs[r]) /\ reqs[r].pc = "done"
    /\ reqs[r].calls = 1 /\ reqs[r].waits = <<>>
    /\ reqs[r].maxRetries = DefaultMaxRetries
    /\ reqs[r].response.status = 500

\* C27: an attempt that the upstream answers with a message holding no text
\* block ends the call at once: the retrying caller throws after exactly one
\* upstream call, with no backoff wait.
C27_NoTextNeverRetried ==
  \A r \in ReqIds :
    reqs[r].lastFault = "NO_TEXT" =>
      /\ FatalAfterLastError(reqs[r])
      /\ reqs[r].lastError.at = 0 => reqs[r].calls = 1 /\ reqs[r].waits = <<>>

\* What holds: the caller treats it like any error without a status, waits
\* and tries again while attempts are left, and throws it after the last.
C27_NoTextRetriedLikeOthers ==
  \A r \in ReqIds :
    reqs[r].lastFault = "NO_TEXT" =>
      /\ reqs[r].lastError.message = <<"No text content in Claude response">>
      /\ reqs[r].pc = "done" =>
           reqs[r].outcome = "thrown" /\ reqs[r].lastError.at = reqs[r].maxRetries
      /\ reqs[r].lastError.at < reqs[r].maxRetries => reqs[r].pc \in {"waiting", "invoking"}

\* a caller waits to try again after a first answer without a text block
C27_Witness ==
  \E r \in ReqIds :
    /\ reqs[r].lastFault = "NO_TEXT" /\ reqs[r].lastError.at = 0
    /\ reqs[r].pc = "waiting" /\ reqs[r].waits = <<BackoffDelay(0)>>

\* material payloads that differ only in that the first has no
\* specification and the second has one
AbsentAndSupplied(p, q) ==
  /\ ~HasProp(p, "specification") /\ HasProp(q, "specification")
  /\ p = Omit(q, "specification")

\* C28: generateCacheKey gives a payload without specification a key other
\* than that of the same payload with any specification supplied, the empty
\* string among them.
C28_AbsentDistinctFromSupplied ==
  \A a, b \in ReqIds :
    (/\ Keyed(reqs[a]) /\ Keyed(reqs[b])
     /\ reqs[a].route = "enhance-material" /\ reqs[b].route = "enhance-material"
     /\ AbsentAndSupplied(reqs[a].payload, reqs[b].payload))
    => reqs[a].key # reqs[b].key

\* What holds: the keys differ unless the specification supplied is empty or
\* spells the sentinel "no-spec".
C28_AbsentDistinctFromOthers ==
  \A a, b \in ReqIds :
    (/\ Keyed(reqs[a]) /\ Keyed(reqs[b])
     /\ reqs[a].route = "enhance-material" /\ reqs[b].route = "enhance-material"
     /\ AbsentAndSupplied(reqs[a].payload, reqs[b].payload)
     /\ trim(toLowerCase(Prop(reqs[b].payload, "specification").s))
          \notin {<<>>, <<"n", "o", "-", "s", "p", "e", "c">>})
    => reqs[a].key # reqs[b].key

\* a payload without specification and the same payload with the empty
\* specification were given one key, and the second request was served the
\* entry of the first
C28_Witness ==
  \E a, b \in ReqIds :
    /\ a < b
    /\ reqs[a].route = "enhance-material" /\ reqs[b].route = "enhance-material"
    /\ ~HasProp(reqs[a].payload, "specification")
    /\ Prop(reqs[b].payload, "specification") = S(<<>>)
    /\ reqs[a].payload = Omit(reqs[b].payload, "specification")
    /\ reqs[b].pc = "done" /\ reqs[b].response.cached = B(TRUE)
    /\ reqs[a].key = reqs[b].key

\* the fixed texts of the failure responses
GenericTexts ==
  {<<"Server configuration issue. Please contact support.">>,
   <<"Too many requests. Please try again later.">>,
   <<"Received invalid response from AI service. Please try again.">>,
   <<"An unexpected error occurred. Please try again.">>,
   <<"AI returned invalid response format">>,
   <<"Failed to generate explanation">>}

\* the request failed on an upstream fault (auth, rate limit, server, client,
\* decode, contract)
ServerFault(req) ==
  /\ req.pc = "done" /\ ~req.direct /\ ~req.response.success
  /\ req.lastFault # "NONE" \/ GotLacking(req)

\* C29: on every route, the message of a failure response that a server-side
\* fault caused is one of the fixed generic texts: it holds neither the
\* message of the internal error nor the names of missing response fields.
C29_NonLeakyFailures ==
  \A r \in ReqIds :
    ServerFault(reqs[r]) =>
      /\ reqs[r].response.message \in GenericTexts
      /\ reqs[r].thrown.message # <<>> => reqs[r].response.message # reqs[r].thrown.message
      /\ \A i \in 1..Len(reqs[r].response.message) :
           reqs[r].response.message[i] \notin Elems(ExplanationFields)

\* What holds: the same on the material and project routes, whose failures
\* pass through errorHandler.
C29_ErrorHandlerNonLeaky ==
  \A r \in ReqIds :
    (ServerFault(reqs[r]) /\ reqs[r].route # "explain-step") =>
      /\ reqs[r].response.message \in GenericTexts
      /\ reqs[r].response.message # reqs[r].thrown.message

\* one step request was answered with the message of the internal error,
\* another with the names of the fields its explanation lacked
C29_Witness ==
  \E a, b \in ReqIds :
    /\ ServerFault(reqs[a]) /\ reqs[a].route = "explain-step"
    /\ reqs[a].lastFault = "AUTH"
    /\ reqs[a].response.message = <<"Invalid Anthropic API key">>
    /\ ServerFault(reqs[b]) /\ GotLacking(reqs[b])
    /\ reqs[b].response.message = <<"AI response missing fields: ", "keyPoints">>

\* the structure of a candidate: which of `fields` it has, which of
\* `containers` are arrays, and which of `elemFields` each element of its
\* array `list` has, Has(_, _) telling what having a field is
Shape(v, fields, containers, list, elemFields, Has(_, _)) ==
  [kind |-> v.t,
   present |-> {f \in Elems(fields) : HasProp(v, f)},
   arrays |-> {f \in containers : IsArray(Prop(v, f))},
   elems |-> IF IsArray(Prop(v, list))
             THEN [i \in 1..Len(Prop(v, list).a) |->
                     {f \in elemFields : Has(Prop(v, list).a[i], f)}]
             ELSE <<>>]

ShapeOf(name, v, Has(_, _)) ==
  IF name = "validateRecommendation"
  THEN Shape(v, RecommendationFields, {"alternatives"}, "alternatives",
             {"brand", "model", "note"}, Has)
  ELSE Shape(v, ProjectPlanFields,
             {"steps", "materials", "tools", "safetyTips", "commonMistakes"}, "steps",
             {"stepNumber", "order", "title", "instruction", "instructions"}, Has)

HasTruthy(v, f) == Truthy(Prop(v, f))

ValidatorCall(r) == RecommendationCall(r) \/ PlanCall(r)

\* C30: the verdict of validateRecommendation and of validateProjectPlan
\* depends only on which required fields are present and which container
\* fields are arrays: two candidates with the same fields present, in them
\* and in the elements of their alternatives or steps, and the same
\* containers arrays, get the same verdict, whatever values the fields hold.
C30_ValidationStructuralOnly ==
  \A a, b \in ReqIds :
    (/\ ValidatorCall(a) /\ ValidatorCall(b) /\ reqs[a].route = reqs[b].route
     /\ ShapeOf(reqs[a].route, reqs[a].payload, HasProp)
          = ShapeOf(reqs[b].route, reqs[b].payload, HasProp))
    => reqs[a].result.valid = reqs[b].result.valid

\* What holds: the verdict depends on the fields present at the top level,
\* on the containers being arrays, and on which fields of each alternative
\* or step hold a value that is neither 0, empty, false nor null.
C30_ValidationByTruthiness ==
  \A a, b \in ReqIds :
    (/\ ValidatorCall(a) /\ ValidatorCall(b) /\ reqs[a].route = reqs[b].route
     /\ ShapeOf(reqs[a].route, reqs[a].payload, HasTruthy)
          = ShapeOf(reqs[b].route, reqs[b].payload, HasTruthy))
    => reqs[a].result.valid = reqs[b].result.valid

\* a plan whose only step has the stepNumber 1 was judged valid, the same
\* plan with the stepNumber 0 invalid
C30_Witness ==
  \E a, b \in ReqIds :
    /\ PlanCall(a) /\ PlanCall(b)
    /\ reqs[a].payload = With(ProjectPlan("1"), "steps", A(<<NewStep>>))
    /\ reqs[b].payload =
         With(ProjectPlan("1"), "steps", A(<<With(NewStep, "stepNumber", N(0))>>))
    /\ reqs[a].result.valid /\ ~reqs[b].result.valid

\* the retrying caller of the request gave up and threw
CallerThrew(req) == ~req.direct /\ req.route \in Routes /\ req.outcome = "thrown"

\* C31: when the retrying caller of a request ends by throwing, the route
\* answers with a failure envelope (success false, a status of 400 or more),
\* never with success true, and makes no cache set for the request: the
\* step on which the caller throws leaves the cache as it is.
C31_FailuresPropagated ==
  /\ [](\A r \in ReqIds :
          CallerThrew(reqs[r]) =>
            /\ reqs[r].pc = "done"
            /\ ~reqs[r].response.success
            /\ reqs[r].response.status >= 400
            /\ reqs[r].response.data = Undef
            /\ ~SetAttempted(reqs[r]))
  /\ [][\A r \in ReqIds :
          (~CallerThrew(reqs[r]) /\ CallerThrew(reqs'[r])) => cache' = cache]_vars

\* a request was answered with a failure after its caller had made all
\* three attempts, and nothing is stored under its key
C31_Witness ==
  \E r \in ReqIds :
    /\ CallerThrew(reqs[r]) /\ reqs[r].pc = "done"
    /\ reqs[r].calls = DefaultMaxRetries + 1
    /\ ~reqs[r].response.success
    /\ reqs[r].key \notin DOMAIN cache.data

\* C32: the value and the expiry time of a stored entry change only by a
\* set of its key that returns: a get (hit, or miss on another key), a
\* stats read, a clear, the sweep and the passing of time leave every entry
\* that stays stored as it was.
C32_ExpiryResetOnlyBySet ==
  [][\A k \in DOMAIN cache.data \cap DOMAIN cache'.data :
       cache'.data[k] # cache.data[k] =>
         \E r \in RepeatIds :
           /\ SetCall(r) /\ reqs'[r].key = k /\ reqs'[r].outcome = "returned"
           /\ cache'.data[k] = [v |-> reqs'[r].result, t |-> ExpiresAt(reqs'[r].payload, now)]]_vars

\* an entry was set, hit by a get a TTL later, and still expires when it did
\* (a stats read made in between), and another set of the key renewed it
C32_Witness ==
  \E a, b, d \in RepeatIds :
    /\ a < b /\ b < d
    /\ reqs[a].route = "setCached" /\ reqs[a].outcome = "returned" /\ reqs[a].payload = Undef
    /\ reqs[b].route = "getCached" /\ reqs[b].log = <<"get:hit">> /\ reqs[b].key = reqs[a].key
    /\ reqs[b].answeredAt = reqs[a].answeredAt + stdTTL
    /\ reqs[d].route = "getCacheStats"
    /\ reqs[a].key \in DOMAIN cache.data
    /\ cache.data[reqs[a].key].t = reqs[a].answeredAt + stdTTL

\* a call of the cache functions other than clearCache
CountersKept(r) ==
  /\ Arrives(r) /\ reqs'[r].route \in {"setCached", "getCacheStats"}
       => cache'.hits = cache.hits /\ cache'.misses = cache.misses
  /\ GetCall(r) => cache'.hits + cache'.misses = cache.hits + cache.misses + 1

\* C33: over any sequence of get, set, stats and clear calls neither hits
\* nor misses ever decreases; each getCached call adds one to exactly one of
\* them, to hits exactly when it returns a live value; set and stats change
\* neither.
C33_CountersMonotonicExact ==
  [][/\ cache'.hits >= cache.hits /\ cache'.misses >= cache.misses
     /\ \A r \in RepeatIds :
          /\ CountersKept(r)
          /\ GetCall(r) => (cache'.hits = cache.hits + 1 <=> Truthy(reqs'[r].result))]_vars

\* What holds: the counters never decrease but by clearCache, which sets
\* both to zero; each getCached call adds one to exactly one of them, to
\* hits exactly when a live entry is stored under the key (whose value the
\* call returns unless it is falsy); set and stats change neither.
C33_CountersKeptButByClear ==
  [][/\ (\A r \in RepeatIds : ~(Arrives(r) /\ reqs'[r].route = "clearCache"))
          => cache'.hits >= cache.hits /\ cache'.misses >= cache.misses
     /\ \A r \in RepeatIds :
          /\ CountersKept(r)
          /\ GetCall(r) =>
               (cache'.hits = cache.hits + 1
                  <=> /\ reqs'[r].key \in DOMAIN cache.data
                      /\ ~Expired(cache.data[reqs'[r].key], now))]_vars

\* a get missed, clearCache ran, and a stats read after it showed no miss
C33_Witness ==
  \E a, b, d \in RepeatIds :
    /\ a < b /\ b < d
    /\ reqs[a].route = "getCached" /\ reqs[a].log = <<"get:miss">>
    /\ reqs[b].route = "clearCache"
    /\ reqs[d].route = "getCacheStats"
    /\ Prop(reqs[d].result, "misses") = N(0)

\* the request was answered from the cache
ServedCached(req) == req.pc = "done" /\ req.response.success /\ req.response.cached = B(TRUE)

\* request a computed its value by a successful upstream call and stored it
\* under its key
Computed(req) ==
  /\ req.pc = "done" /\ req.outcome = "returned" /\ req.calls >= 1
  /\ \E i \in 1..Len(req.log) : req.log[i] = "set"

\* C34: the data of every response with cached true is the value that an
\* earlier request deriving the same key got from a successful upstream
\* call and stored, not longer ago than the TTL; no response has cached true
\* for a key that no request has computed within that time.
C34_CachedProvenance ==
  [][\A b \in RepeatIds :
       (Arrives(b) /\ ServedCached(reqs'[b])) =>
         \E a \in RepeatIds :
           /\ a < b /\ Computed(reqs[a])
           /\ reqs[a].key = reqs'[b].key
           /\ reqs'[b].response.data = RouteData(reqs[a].route, reqs[a].result)
           /\ now <= reqs[a].answeredAt + stdTTL]_vars

\* a request was served from the cache the value an earlier request had
\* computed, a third request in between having failed
C34_Witness ==
  \E a, b, d \in RepeatIds :
    /\ a < b /\ b < d
    /\ Computed(reqs[a]) /\ reqs[a].calls = 2
    /\ CallerThrew(reqs[b]) /\ reqs[b].pc = "done"
    /\ ServedCached(reqs[d])
    /\ reqs[d].key = reqs[a].key
    /\ reqs[d].response.data = RouteData(reqs[a].route, reqs[a].result)

\* the two requests were validated and derived one key on one route
SameKey(a, b) ==
  /\ Keyed(reqs[a]) /\ Keyed(reqs[b])
  /\ reqs[a].route = reqs[b].route
  /\ reqs[a].key = reqs[b].key

\* C35: two valid payloads of one request kind that derive the same cache
\* key produce the same prompt, so a response with cached true was computed
\* for the prompt that the payload it answers would generate.
C35_KeyCoversPrompt ==
  \A a, b \in ReqIds :
    SameKey(a, b) =>
      Prompt(reqs[a].route, reqs[a].payload) = Prompt(reqs[b].route, reqs[b].payload)

\* a request was served, with cached true, the value computed for a payload
\* of the same name whose quantity, unit and project differ from its own
C35_Witness ==
  \E a, b \in ReqIds :
    /\ SameKey(a, b)
    /\ Computed(reqs[a]) /\ ServedCached(reqs[b])
    /\ reqs[b].response.data = RouteData(reqs[a].route, reqs[a].result)
    /\ reqs[a].route = "enhance-material"
    /\ Prop(reqs[a].payload, "name") = Prop(reqs[b].payload, "name")
    /\ Prop(reqs[a].payload, "quantity") # Prop(reqs[b].payload, "quantity")
    /\ Prompt(reqs[a].route, reqs[a].payload) # Prompt(reqs[b].route, reqs[b].payload)

\* the same on the two other routes: only the context of a project, or the
\* category of a step's project, tells the two payloads apart
C35_WitnessOtherRoutes ==
  \E a, b \in ReqIds :
    /\ SameKey(a, b)
    /\ Computed(reqs[a]) /\ ServedCached(reqs[b])
    /\ reqs[a].route # "enhance-material"
    /\ \/ Prop(reqs[a].payload, "description") = Prop(reqs[b].payload, "description")
       \/ /\ Prop(reqs[a].payload, "stepTitle") = Prop(reqs[b].payload, "stepTitle")
          /\ Prop(reqs[a].payload, "projectTitle") = Prop(reqs[b].payload, "projectTitle")
    /\ Prompt(reqs[a].route, reqs[a].payload) # Prompt(reqs[b].route, reqs[b].payload)

\* request a is answered in this step with a value of its own upstream call
\* although request b has, within the TTL, stored a value under the same
\* key: a read the cache before b wrote it, so the two missed concurrently
ConcurrentMisses(a, b) ==
  /\ a # b
  /\ Answers(a) /\ reqs'[a].outcome = "returned" /\ reqs'[a].response.success
  /\ Computed(reqs[b]) /\ reqs[b].response.success
  /\ reqs[b].key = reqs[a].key
  /\ now <= reqs[b].answeredAt + stdTTL

\* C36: when two concurrent requests for one uncached key both complete
\* successfully, both callers receive the same data, and the cache holds
\* that data for the key afterwards: the later-finishing request does not
\* overwrite the entry with a different value.
C36_ConcurrentMissesConverge ==
  [][\A a, b \in RepeatIds :
       ConcurrentMisses(a, b) =>
         /\ reqs'[a].response.data = reqs[b].response.data
         /\ reqs[a].key \in DOMAIN cache'.data
         /\ cache'.data[reqs[a].key].v = reqs[b].result]_vars

\* what the code does: each of the two is answered with the result of its
\* own call, and the entry afterwards is the later-finishing request's
C36_LastWriterWins ==
  [][\A a, b \in RepeatIds :
       ConcurrentMisses(a, b) =>
         /\ reqs'[a].response.data = RouteData(reqs'[a].route, reqs'[a].result)
         /\ reqs[a].key \in DOMAIN cache'.data
         /\ cache'.data[reqs[a].key].v = reqs'[a].result]_vars

\* two requests missed together, both were answered success with different
\* data, and the cache holds the data of the one that finished last
C36_Witness ==
  \E a, b \in RepeatIds :
    /\ a # b
    /\ Computed(reqs[a]) /\ Computed(reqs[b])
    /\ reqs[a].response.success /\ reqs[b].response.success
    /\ reqs[a].key = reqs[b].key
    /\ reqs[a].answeredAt = reqs[b].answeredAt
    /\ now = reqs[a].answeredAt
    /\ reqs[a].response.data # reqs[b].response.data
    /\ reqs[a].key \in DOMAIN cache.data
    /\ cache.data[reqs[a].key].v = reqs[a].result
    /\ cache.data[reqs[a].key].v # reqs[b].result

\* an upstream call is started in this step by request r
Invokes(r) == reqs'[r].calls # reqs[r].calls

\* every upstream call is started by exactly one request, one call in a
\* step, and that request read the cache and missed
CallsAttributed ==
  \A r \in ReqIds :
    Invokes(r) =>
      /\ reqs'[r].calls = reqs[r].calls + 1
      /\ Head(reqs'[r].log) = "get:miss"
      /\ reqs'[r].pc = "invoking"
      /\ \A q \in ReqIds \ {r} : ~Invokes(q)

\* the request passed the limiter and the payload check and its key
\* derivation threw
KeyFailed(req) ==
  /\ ~Limited(req) /\ ~Refused(req)
  /\ DeriveKey(req.route, req.payload).threw

\* C37: a client request causes no upstream call if it is rate-limited,
\* invalid or a cache hit, and otherwise between 1 and 3 calls (the default
\* bound); every upstream call is started by exactly one request that
\* missed the cache.
C37_UpstreamCallsBounded ==
  /\ [](\A r \in ReqIds :
          reqs[r].pc # "idle" =>
            IF Limited(reqs[r]) \/ Refused(reqs[r]) \/ ServedCached(reqs[r])
            THEN reqs[r].calls = 0
            ELSE reqs[r].calls \in 1..(DefaultMaxRetries + 1))
  /\ [][CallsAttributed]_vars

\* the same, a request whose key derivation throws counted with those that
\* cause no call
C37_UpstreamCallsBoundedButKeyFailure ==
  /\ [](\A r \in ReqIds :
          reqs[r].pc # "idle" =>
            IF Limited(reqs[r]) \/ Refused(reqs[r]) \/ ServedCached(reqs[r])
               \/ KeyFailed(reqs[r])
            THEN reqs[r].calls = 0
            ELSE reqs[r].calls \in 1..(DefaultMaxRetries + 1))
  /\ [][CallsAttributed]_vars

\* a request that was neither limited nor refused nor served from the cache
\* was answered without any upstream call
C37_Witness ==
  \E r \in ReqIds :
    /\ reqs[r].pc = "done"
    /\ ~Limited(reqs[r]) /\ ~Refused(reqs[r]) /\ ~ServedCached(reqs[r])
    /\ Prop(reqs[r].payload, "category") = N(5)
    /\ reqs[r].response.status = 500
    /\ reqs[r].calls = 0

\* the four cases of the bound in one behaviour of two requests each: a
\* limited and a refused request, and a request of three calls followed by
\* a cache hit
C37_WitnessBound ==
  \/ \E a, b \in ReqIds :
       /\ Limited(reqs[a]) /\ reqs[a].calls = 0
       /\ Refused(reqs[b]) /\ reqs[b].calls = 0
  \/ \E a, b \in ReqIds :
       /\ Computed(reqs[a]) /\ reqs[a].calls = DefaultMaxRetries + 1
       /\ ServedCached(reqs[b]) /\ reqs[b].calls = 0

====
